---------------------------- MODULE Spec2Model ----------------------------
(***************************************************************************)
(* Porter Saathi command interpreter (server/src/controllers/              *)
(* aiController.ts): intent classification, field extraction and the order *)
(* transitions of aiReply, over an order store and a per-user conversation *)
(* history.                                                                *)
(*                                                                         *)
(* A JavaScript string is a sequence of one-character strings, so that     *)
(* toLowerCase, toUpperCase, the regular expressions and the template      *)
(* literals of the source are computed character by character.             *)
(***************************************************************************)
EXTENDS Integers, Sequences, FiniteSets, TLC

-----------------------------------------------------------------------------
(* Characters and the String.prototype methods the controller uses *)

LowerLetters == <<"a","b","c","d","e","f","g","h","i","j","k","l","m","n","o","p","q","r","s","t","u","v","w","x","y","z">>

UpperLetters == <<"A","B","C","D","E","F","G","H","I","J","K","L","M","N","O","P","Q","R","S","T","U","V","W","X","Y","Z">>

DigitChars == <<"0","1","2","3","4","5","6","7","8","9">>

Range(s) == {s[i] : i \in DOMAIN s}

LowerSet == Range(LowerLetters)

UpperSet == Range(UpperLetters)

DigitSet == Range(DigitChars)

\* [A-Za-z]
LetterSet == LowerSet \cup UpperSet

\* [A-Za-z0-9]
AlnumSet == LetterSet \cup DigitSet

\* \w
WordSet == AlnumSet \cup {"_"}

\* [A-Za-z0-9\-]
IdCharSet == AlnumSet \cup {"-"}

\* \s
SpaceSet == {" ", "\n", "\t"}

\* null and undefined of the source: a value that is no string of characters
null == <<"null">>

IndexIn(c, s) == CHOOSE i \in DOMAIN s : s[i] = c

charToLower(c) == IF c \in UpperSet THEN LowerLetters[IndexIn(c, UpperLetters)] ELSE c

charToUpper(c) == IF c \in LowerSet THEN UpperLetters[IndexIn(c, LowerLetters)] ELSE c

\* a sequence given as a function on 1..n, as the tuple of its elements
Tuple(f) == SubSeq(f, 1, Len(f))

toLowerCase(s) == Tuple([i \in 1..Len(s) |-> charToLower(s[i])])

toUpperCase(s) == Tuple([i \in 1..Len(s) |-> charToUpper(s[i])])

\* s.slice(from) with a 0-based index, as a 1-based suffix
SliceFrom(s, from) == SubSeq(s, from, Len(s))

\* the pattern p stands in s at position i
StartsAt(s, i, p) == i >= 1 /\ i + Len(p) - 1 <= Len(s) /\ SubSeq(s, i, i + Len(p) - 1) = p

startsWith(s, p) == StartsAt(s, 1, p)

SetMin(S) == CHOOSE x \in S : \A y \in S : x <= y

SetMax(S) == CHOOSE x \in S : \A y \in S : y <= x

\* position of the first occurrence of p in s at or after from, 0 when there is none
IndexOfFrom(s, p, from) ==
  LET hits == {i \in from..Len(s) : StartsAt(s, i, p)}
  IN IF hits = {} THEN 0 ELSE SetMin(hits)

IndexOf(s, p) == IndexOfFrom(s, p, 1)

\* /p/.test(s) for a literal p
Contains(s, p) == \E i \in 1..Len(s) : StartsAt(s, i, p)

\* \b at the gap before position i (i in 1..Len(s)+1)
WordBoundary(s, i) ==
  ((i > 1) /\ (s[i - 1] \in WordSet)) # ((i <= Len(s)) /\ (s[i] \in WordSet))

\* /\bp\b/.test(s) for a literal p
ContainsWord(s, p) ==
  \E i \in 1..Len(s) : StartsAt(s, i, p) /\ WordBoundary(s, i) /\ WordBoundary(s, i + Len(p))

\* end of the greedy run [C]* starting at i: i-1 when s[i] is not in C
RunEnd(s, i, C) ==
  SetMax({j \in (i - 1)..Len(s) : \A k \in i..j : s[k] \in C})

\* s.trim()
trim(s) ==
  LET keep == {i \in 1..Len(s) : s[i] \notin SpaceSet}
  IN IF keep = {} THEN <<>> ELSE SubSeq(s, SetMin(keep), SetMax(keep))

\* the prefix "ORD-" of a tracking id
ORD_ == <<"O","R","D","-">>

-----------------------------------------------------------------------------
(* Clock and random source *)

\* Date.now() is EpochMs + now, where EpochMs = 1704067200000 (2024-01-01T00:00:00.000,
\* a local midnight of the server) and the variable now counts the milliseconds since.
\* EpochDigits are the base-36 digits of EpochMs, most significant first ("lqu5m2o0").
EpochDigits == <<21, 26, 30, 5, 22, 2, 24, 0>>

Base36Chars == DigitChars \o LowerLetters

\* the base-36 digits of (the number with digits ds) + n
RECURSIVE AddDigits(_, _)
AddDigits(ds, n) ==
  IF ds = <<>>
  THEN IF n = 0 THEN <<>> ELSE AddDigits(<<>>, n \div 36) \o <<n % 36>>
  ELSE LET low == ds[Len(ds)] + n
       IN AddDigits(SubSeq(ds, 1, Len(ds) - 1), low \div 36) \o <<low % 36>>

\* Date.now().toString(36) at clock value t
DateNowToString36(t) ==
  LET ds == AddDigits(EpochDigits, t) IN Tuple([i \in 1..Len(ds) |-> Base36Chars[ds[i] + 1]])

\* Math.random().toString(36) for a draw whose base-36 fraction digits are rnd:
\* "0." followed by the digits, and "0" for the draw 0
MathRandomToString36(rnd) ==
  IF rnd = <<>> THEN <<"0">>
  ELSE <<"0",".">> \o Tuple([i \in 1..Len(rnd) |-> Base36Chars[rnd[i] + 1]])

\* s.slice(2, 8)
Slice2To8(s) == SubSeq(s, 3, IF Len(s) < 8 THEN Len(s) ELSE 8)

makeTrackingId(t, rnd) ==
  ORD_ \o DateNowToString36(t) \o toUpperCase(Slice2To8(MathRandomToString36(rnd)))

-----------------------------------------------------------------------------
(* Deterministic extractors *)

\* /\bORD-[A-Za-z0-9]+\b/i at position i: the end of the match, 0 when there is none
OrdTokenEnd(s, i) ==
  IF StartsAt(toLowerCase(s), i, toLowerCase(ORD_)) /\ WordBoundary(s, i)
  THEN LET e == RunEnd(s, i + 4, AlnumSet)
           \* [A-Za-z0-9]+ is greedy and gives characters back until \b holds
           ends == {j \in (i + 4)..e : WordBoundary(s, j + 1)}
       IN IF ends = {} THEN 0 ELSE SetMax(ends)
  ELSE 0

\* the match as it is written in the text, without the upper-casing
extractTrackingIdFromAsWritten(text) ==
  LET hits == {i \in 1..Len(text) : OrdTokenEnd(text, i) > 0}
  IN IF hits = {} THEN null
     ELSE LET i == SetMin(hits) IN SubSeq(text, i, OrdTokenEnd(text, i))

extractTrackingIdFrom(text) ==
  LET hits == {i \in 1..Len(text) : OrdTokenEnd(text, i) > 0}
  IN IF hits = {} THEN null
     ELSE LET i == SetMin(hits) IN toUpperCase(SubSeq(text, i, OrdTokenEnd(text, i)))

-----------------------------------------------------------------------------
(* Intent classifier *)

\* /create (an )?order|place order|i want to order|new order|add order/
CreateOrderRule(t) ==
  \/ Contains(t, <<"c","r","e","a","t","e"," ","o","r","d","e","r">>)
  \/ Contains(t, <<"c","r","e","a","t","e"," ","a","n"," ","o","r","d","e","r">>)
  \/ Contains(t, <<"p","l","a","c","e"," ","o","r","d","e","r">>)
  \/ Contains(t, <<"i"," ","w","a","n","t"," ","t","o"," ","o","r","d","e","r">>)
  \/ Contains(t, <<"n","e","w"," ","o","r","d","e","r">>)
  \/ Contains(t, <<"a","d","d"," ","o","r","d","e","r">>)

\* /track (?:order )?([A-Za-z0-9\-]+)/i at position i: <<first, last>> of the capture,
\* <<0, 0>> when the pattern does not match there. The optional group is tried first.
TrackMatchAt(t, i) ==
  IF ~StartsAt(t, i, <<"t","r","a","c","k"," ">>) THEN <<0, 0>>
  ELSE LET j == i + 6
           k == j + 6
       IN IF StartsAt(t, j, <<"o","r","d","e","r"," ">>) /\ RunEnd(t, k, IdCharSet) >= k
          THEN <<k, RunEnd(t, k, IdCharSet)>>
          ELSE IF RunEnd(t, j, IdCharSet) >= j THEN <<j, RunEnd(t, j, IdCharSet)>>
          ELSE <<0, 0>>

\* /where is order ([A-Za-z0-9\-]+)/i at position i
WhereMatchAt(t, i) ==
  LET k == i + 15
  IN IF StartsAt(t, i, <<"w","h","e","r","e"," ","i","s"," ","o","r","d","e","r"," ">>) /\ RunEnd(t, k, IdCharSet) >= k
     THEN <<k, RunEnd(t, k, IdCharSet)>>
     ELSE <<0, 0>>

\* t.match(track) || t.match(where): the captured group 1, null when neither matches
TrackCapture(t) ==
  LET th == {i \in 1..Len(t) : TrackMatchAt(t, i)[1] > 0}
      wh == {i \in 1..Len(t) : WhereMatchAt(t, i)[1] > 0}
  IN IF th # {} THEN LET m == TrackMatchAt(t, SetMin(th)) IN SubSeq(t, m[1], m[2])
     ELSE IF wh # {} THEN LET m == WhereMatchAt(t, SetMin(wh)) IN SubSeq(t, m[1], m[2])
     ELSE null

\* /next pickup|next delivery|next order|what's my next pickup|what is my next pickup/
NextPickupRule(t) ==
  \/ Contains(t, <<"n","e","x","t"," ","p","i","c","k","u","p">>)
  \/ Contains(t, <<"n","e","x","t"," ","d","e","l","i","v","e","r","y">>)
  \/ Contains(t, <<"n","e","x","t"," ","o","r","d","e","r">>)
  \/ Contains(t, <<"w","h","a","t","'","s"," ","m","y"," ","n","e","x","t"," ","p","i","c","k","u","p">>)
  \/ Contains(t, <<"w","h","a","t"," ","i","s"," ","m","y"," ","n","e","x","t"," ","p","i","c","k","u","p">>)

\* /list (my )?orders|show (my )?orders|recent orders/
ListOrdersRule(t) ==
  \/ Contains(t, <<"l","i","s","t"," ","o","r","d","e","r","s">>)
  \/ Contains(t, <<"l","i","s","t"," ","m","y"," ","o","r","d","e","r","s">>)
  \/ Contains(t, <<"s","h","o","w"," ","o","r","d","e","r","s">>)
  \/ Contains(t, <<"s","h","o","w"," ","m","y"," ","o","r","d","e","r","s">>)
  \/ Contains(t, <<"r","e","c","e","n","t"," ","o","r","d","e","r","s">>)

\* /\bcancel order\b/
CancelOrderRule(t) == ContainsWord(t, <<"c","a","n","c","e","l"," ","o","r","d","e","r">>)

\* /\bdelete order\b|\bremove order\b/
DeleteOrderRule(t) == ContainsWord(t, <<"d","e","l","e","t","e"," ","o","r","d","e","r">>) \/ ContainsWord(t, <<"r","e","m","o","v","e"," ","o","r","d","e","r">>)

\* /add address|update address/
UpdateAddressRule(t) == Contains(t, <<"a","d","d"," ","a","d","d","r","e","s","s">>) \/ Contains(t, <<"u","p","d","a","t","e"," ","a","d","d","r","e","s","s">>)

\* /\bupdate\b|\bmodify\b|\bchange\b/
UpdateOrderRule(t) ==
  ContainsWord(t, <<"u","p","d","a","t","e">>) \/ ContainsWord(t, <<"m","o","d","i","f","y">>) \/ ContainsWord(t, <<"c","h","a","n","g","e">>)

\* a classifier whose track rule comes before the create rule
parseIntentTrackFirst(text) ==
  LET t == toLowerCase(text)
  IN IF TrackCapture(t) # null THEN [intent |-> "track_order", trackingId |-> TrackCapture(t)]
     ELSE IF CreateOrderRule(t) THEN [intent |-> "create_order", trackingId |-> null]
     ELSE IF NextPickupRule(t) THEN [intent |-> "next_pickup", trackingId |-> null]
     ELSE IF ListOrdersRule(t) THEN [intent |-> "list_orders", trackingId |-> null]
     ELSE IF CancelOrderRule(t) THEN [intent |-> "cancel_order", trackingId |-> null]
     ELSE IF DeleteOrderRule(t) THEN [intent |-> "delete_order", trackingId |-> null]
     ELSE IF UpdateAddressRule(t) THEN [intent |-> "update_address", trackingId |-> null]
     ELSE IF UpdateOrderRule(t) THEN [intent |-> "update_order", trackingId |-> null]
     ELSE [intent |-> "general", trackingId |-> null]

\* a classifier whose generic update rule comes before the update_address rule
parseIntentUpdateFirst(text) ==
  LET t == toLowerCase(text)
  IN IF CreateOrderRule(t) THEN [intent |-> "create_order", trackingId |-> null]
     ELSE IF TrackCapture(t) # null THEN [intent |-> "track_order", trackingId |-> TrackCapture(t)]
     ELSE IF NextPickupRule(t) THEN [intent |-> "next_pickup", trackingId |-> null]
     ELSE IF ListOrdersRule(t) THEN [intent |-> "list_orders", trackingId |-> null]
     ELSE IF CancelOrderRule(t) THEN [intent |-> "cancel_order", trackingId |-> null]
     ELSE IF DeleteOrderRule(t) THEN [intent |-> "delete_order", trackingId |-> null]
     ELSE IF UpdateOrderRule(t) THEN [intent |-> "update_order", trackingId |-> null]
     ELSE IF UpdateAddressRule(t) THEN [intent |-> "update_address", trackingId |-> null]
     ELSE [intent |-> "general", trackingId |-> null]

parseIntent(text) ==
  LET t == toLowerCase(text)
  IN IF CreateOrderRule(t) THEN [intent |-> "create_order", trackingId |-> null]
     ELSE IF TrackCapture(t) # null THEN [intent |-> "track_order", trackingId |-> TrackCapture(t)]
     ELSE IF NextPickupRule(t) THEN [intent |-> "next_pickup", trackingId |-> null]
     ELSE IF ListOrdersRule(t) THEN [intent |-> "list_orders", trackingId |-> null]
     ELSE IF CancelOrderRule(t) THEN [intent |-> "cancel_order", trackingId |-> null]
     ELSE IF DeleteOrderRule(t) THEN [intent |-> "delete_order", trackingId |-> null]
     ELSE IF UpdateAddressRule(t) THEN [intent |-> "update_address", trackingId |-> null]
     ELSE IF UpdateOrderRule(t) THEN [intent |-> "update_order", trackingId |-> null]
     ELSE [intent |-> "general", trackingId |-> null]

-----------------------------------------------------------------------------
(* JavaScript values of the extracted fields *)

\* a number n/d of the source (d = 1 for an integer)
Num(n) == <<"num", n, 1>>

Frac(n, d) == <<"num", n, d>>

NaN == <<"nan">>

IsNum(v) == Len(v) = 3 /\ v[1] = "num"

\* the decimal digits of a natural number, as Number.prototype.toString writes them
RECURSIVE NatToString(_)
NatToString(n) ==
  IF n < 10 THEN <<DigitChars[n + 1]>> ELSE NatToString(n \div 10) \o <<DigitChars[(n % 10) + 1]>>

\* the value of a string of decimal digits
RECURSIVE DigitsValue(_)
DigitsValue(s) ==
  IF s = <<>> THEN 0 ELSE 10 * DigitsValue(SubSeq(s, 1, Len(s) - 1)) + (IndexIn(s[Len(s)], DigitChars) - 1)

\* `${v}` for a number; halves are the only fractions the model draws
NumToString(v) ==
  IF v = NaN THEN <<"N","a","N">>
  ELSE LET a == IF v[2] < 0 THEN -v[2] ELSE v[2]
           sign == IF v[2] < 0 THEN <<"-">> ELSE <<>>
       IN IF v[3] = 1 THEN sign \o NatToString(a)
          ELSE sign \o NatToString(a \div v[3]) \o <<".">> \o NatToString(((a % v[3]) * 10) \div v[3])

\* the truthiness test of `x ? a : b` and `x || d`
Truthy(v) == v # null /\ v # NaN /\ v # <<>> /\ ~(IsNum(v) /\ v[2] = 0)

\* x || d
OrElse(v, d) == IF Truthy(v) THEN v ELSE d

\* Number(v) for a truthy v: a number is itself, a string of digits its value, any other string NaN
Number(v) ==
  IF IsNum(v) THEN v
  ELSE IF v # NaN /\ v # null /\ \A i \in 1..Len(v) : v[i] \in DigitSet THEN Num(DigitsValue(v))
  ELSE NaN

-----------------------------------------------------------------------------
(* Structured extraction *)

created == <<"c","r","e","a","t","e","d">>

cancelled == <<"c","a","n","c","e","l","l","e","d">>

\* a fallback that leaves the item unset
FallbackFieldsNoItem(text) ==
  [item |-> null, qty |-> Num(1), address |-> null, customerName |-> null,
   pickupTime |-> null, assignedTo |-> null, status |-> created, trackingId |-> null,
   amount |-> Num(200), expenses |-> Num(50)]

\* the deterministic fallback of extractOrderFieldsWithLLM
FallbackFields(text) ==
  [item |-> text, qty |-> Num(1), address |-> null, customerName |-> null,
   pickupTime |-> null, assignedTo |-> null, status |-> created, trackingId |-> null,
   amount |-> Num(200), expenses |-> Num(50)]

\* The outcome of groq.chat.completions.create and JSON.parse in the extractor:
\* [kind |-> "throws"], [kind |-> "unparsable"] (JSON.parse throws), or
\* [kind |-> "json", parsed |-> the parsed object]. A pickupTime of the parsed object is
\* the time new Date(parsed.pickupTime) denotes, as milliseconds of the model clock.
extractOrderFieldsWithLLM(text, groq, llm) ==
  IF ~groq THEN FallbackFields(text)
  ELSE IF llm.kind # "json" THEN FallbackFields(text)
  ELSE LET parsed == llm.parsed
       IN [customerName |-> OrElse(parsed.customerName, null),
           address |-> OrElse(parsed.address, null),
           item |-> OrElse(parsed.item, text),
           qty |-> IF Truthy(parsed.qty) THEN Number(parsed.qty) ELSE Num(1),
           pickupTime |-> IF Truthy(parsed.pickupTime) THEN parsed.pickupTime ELSE null,
           assignedTo |-> OrElse(parsed.assignedTo, null),
           status |-> OrElse(parsed.status, created),
           trackingId |-> OrElse(parsed.trackingId, null),
           amount |-> IF Truthy(parsed.amount) THEN Number(parsed.amount) ELSE Num(200),
           expenses |-> IF Truthy(parsed.expenses) THEN Number(parsed.expenses) ELSE Num(50)]

-----------------------------------------------------------------------------
(* State *)

VARIABLES
  store,     \* the Order collection, a sequence of documents in insertion order
  nextId,    \* the next _id the store hands out
  history,   \* conversationHistory: userId -> messages (<<>>: the map has no entry)
  groq,      \* whether GROQ_API_KEY was set when the process started
  now,       \* the clock, in milliseconds since EpochMs
  req,       \* the request being answered: text, userId, classified intent, store up/down
  llm,       \* the outcome of the model call of this request ("none": no call made)
  res,       \* the response sent: HTTP status and JSON body
  requests,  \* number of requests handled so far
  calls,     \* the requests suspended at an await, in the order they arrived
  nav        \* the NavigationService singleton: its fields, and the requests it has sent

vars == <<store, nextId, history, groq, now, req, llm, res, requests, calls, nav>>

\* the null of currentLocation and of currentRoute
noLocation == [position |-> <<"null">>]

noRoute == [destination |-> <<"null">>]

\* The fields of a NavigationService after construction. lookups, weatherLookups and
\* announced record the requests sent to the geocoder and to the weather API and the
\* texts handed to the auto-advance callback; started counts the startNavigation calls
NavInit ==
  [currentLocation |-> noLocation, watchId |-> <<"null">>, isNavigating |-> FALSE,
   currentRoute |-> noRoute, currentStepIndex |-> 0, stepWaypoints |-> <<>>,
   autoAdvanceCallback |-> <<"null">>, lastGeocodeTime |-> 0, geocodeCache |-> {},
   forwardGeocodeCache |-> {}, lastWeatherCheck |-> 0, weatherCache |-> {},
   lookups |-> <<>>, weatherLookups |-> <<>>, announced |-> <<>>, started |-> 0]

\* the character U+2014 of the next_pickup reply
EmDash == "u2014"

\* the absent order of a response body (order: null, or no order key)
noOrder == [_id |-> 0]

NoCall == [kind |-> "none"]

-----------------------------------------------------------------------------
(* The Order store: the Mongoose model calls aiReply makes *)

\* new Order({...}) followed by save(): the schema fields of the document, the _id and
\* the timestamps the store assigns
OrderDoc(fields, id, t) ==
  [_id |-> id, trackingId |-> fields.trackingId, customerName |-> fields.customerName,
   address |-> fields.address, item |-> fields.item, qty |-> fields.qty,
   status |-> fields.status, pickupTime |-> fields.pickupTime,
   assignedTo |-> fields.assignedTo, amount |-> fields.amount,
   expenses |-> fields.expenses, metadata |-> fields.metadata,
   createdAt |-> t, updatedAt |-> t]

\* Order.findOne({ trackingId }): the index of the first matching document in natural
\* (insertion) order, 0 when none matches. The match is exact, case included.
FindOneByTrackingId(st, tid) ==
  LET hits == {i \in 1..Len(st) : st[i].trackingId = tid}
  IN IF hits = {} THEN 0 ELSE SetMin(hits)

\* Order.findByIdAndDelete(id)
DeleteById(st, id) ==
  LET keep == {i \in 1..Len(st) : st[i]._id # id}
      RECURSIVE Pick(_)
      Pick(i) == IF i > Len(st) THEN <<>>
                 ELSE (IF i \in keep THEN <<st[i]>> ELSE <<>>) \o Pick(i + 1)
  IN Pick(1)

\* .sort({ createdAt: -1 }): every order of the documents at idxs that is descending in
\* createdAt (documents with equal createdAt come in either order)
RECURSIVE SortCreatedAtDesc(_, _)
SortCreatedAtDesc(st, idxs) ==
  IF idxs = {} THEN {<<>>}
  ELSE UNION {{<<st[i]>> \o q : q \in SortCreatedAtDesc(st, idxs \ {i})} :
              i \in {i \in idxs : \A j \in idxs : st[j].createdAt <= st[i].createdAt}}

\* the limit of the list query
ListLimit == 10

\* a query without its limit
LimitAll(q, n) == q

\* .limit(n)
Limit(q, n) == SubSeq(q, 1, IF Len(q) < n THEN Len(q) ELSE n)

\* Order.find({}).sort({ createdAt: -1 }).limit(10): the possible results
FindRecent(st) == {Limit(q, ListLimit) : q \in SortCreatedAtDesc(st, 1..Len(st))}

\* every status an order can have
PickupStatusesAll == {created, cancelled, <<"p","r","o","c","e","s","s","i","n","g">>, <<"s","h","i","p","p","e","d">>, <<"d","e","l","i","v","e","r","e","d">>, <<"a","s","s","i","g","n","e","d">>, <<"p","e","n","d","i","n","g">>}

\* the statuses next_pickup selects
PickupStatuses == {created, <<"a","s","s","i","g","n","e","d">>, <<"p","e","n","d","i","n","g">>}

\* the ascending sort key of pickupTime: null sorts before every date
PickupKey(o) == IF o.pickupTime = null THEN -1 ELSE o.pickupTime[2]

\* Order.findOne({ status: { $in: [...] } }).sort({ pickupTime: 1, createdAt: 1 }):
\* the indexes of the documents that may come first (0 when none is eligible)
FindNextPickup(st) ==
  LET elig == {i \in 1..Len(st) : st[i].status \in PickupStatuses}
      Before(i, j) == \/ PickupKey(st[i]) < PickupKey(st[j])
                      \/ /\ PickupKey(st[i]) = PickupKey(st[j])
                         /\ st[i].createdAt <= st[j].createdAt
  IN IF elig = {} THEN {0} ELSE {i \in elig : \A j \in elig : Before(i, j)}

-----------------------------------------------------------------------------
(* update_address and update_order: their extractors and string surgery *)

\* text.match(/ORD-[A-Za-z0-9]+/i): the match m[0], null without one
OrdMatch(text) ==
  LET t == toLowerCase(text)
      hits == {i \in 1..Len(t) : StartsAt(t, i, <<"o","r","d","-">>) /\ RunEnd(text, i + 4, AlnumSet) >= i + 4}
  IN IF hits = {} THEN null
     ELSE LET i == SetMin(hits) IN SubSeq(text, i, RunEnd(text, i + 4, AlnumSet))

\* s.split(sep)[1] for a literal separator: the text between the first and the second
\* occurrence of sep, null (undefined) when sep does not occur
SplitSecond(s, sep) ==
  LET i == IndexOf(s, sep)
      from == i + Len(sep)
      j == IndexOfFrom(s, sep, from)
  IN IF i = 0 THEN null
     ELSE IF j = 0 THEN SubSeq(s, from, Len(s)) ELSE SubSeq(s, from, j - 1)

\* s.split(/sep/i)[1] for a lower-case literal sep
SplitSecondCI(s, sep) ==
  LET t == toLowerCase(s)
      i == IndexOf(t, sep)
      from == i + Len(sep)
      j == IndexOfFrom(t, sep, from)
  IN IF i = 0 THEN null
     ELSE IF j = 0 THEN SubSeq(s, from, Len(s)) ELSE SubSeq(s, from, j - 1)

\* s.split(/(?:k1|k2|...)/i)[0]: the text before the first occurrence of any keyword
BeforeKeywords(s, kws) ==
  LET t == toLowerCase(s)
      hits == {i \in 1..Len(t) : \E k \in kws : StartsAt(t, i, k)}
  IN IF hits = {} THEN s ELSE SubSeq(s, 1, SetMin(hits) - 1)

\* s.split(/(?:,| and )/i).map(trim).filter(Boolean)
RECURSIVE SplitList(_)
SplitList(s) ==
  LET t == toLowerCase(s)
      hits == {i \in 1..Len(t) : StartsAt(t, i, <<",">>) \/ StartsAt(t, i, <<" ","a","n","d"," ">>)}
      i == SetMin(hits)
      n == IF t[i] = "," THEN 1 ELSE 5
      head == IF hits = {} THEN trim(s) ELSE trim(SubSeq(s, 1, i - 1))
      rest == IF hits = {} THEN <<>> ELSE SplitList(SubSeq(s, i + n, Len(s)))
  IN (IF head = <<>> THEN <<>> ELSE <<head>>) \o rest

\* items.join(", ")
RECURSIVE Join(_)
Join(items) ==
  IF items = <<>> THEN <<>>
  ELSE IF Len(items) = 1 THEN items[1]
  ELSE items[1] \o <<","," ">> \o Join(Tail(items))

extractStatus(text) ==
  LET lower == toLowerCase(text)
  IN IF ContainsWord(lower, <<"d","e","l","i","v","e","r","e","d">>) THEN <<"d","e","l","i","v","e","r","e","d">>
     ELSE IF ContainsWord(lower, <<"p","r","o","c","e","s","s","i","n","g">>) THEN <<"p","r","o","c","e","s","s","i","n","g">>
     ELSE IF ContainsWord(lower, <<"s","h","i","p","p","e","d">>) THEN <<"s","h","i","p","p","e","d">>
     ELSE null

\* /assign(?:\s+to)?\s+([A-Za-z ]+)/i continued at position p (after "assign" or after
\* "to"): \s+ then the capture. \s+ is greedy and gives whitespace back while the capture
\* cannot start. <<first, last>> of the capture, <<0, 0>> when it fails.
AssigneeTail(s, p) ==
  LET w == RunEnd(s, p, SpaceSet)
      LetterSpace == LetterSet \cup {" "}
      ks == {k \in p..w : RunEnd(s, k + 1, LetterSpace) >= k + 1}
  IN IF ks = {} THEN <<0, 0>> ELSE <<SetMax(ks) + 1, RunEnd(s, SetMax(ks) + 1, LetterSpace)>>

\* the match at position i: the optional group (?:\s+to) is tried before its absence
AssigneeMatchAt(s, i) ==
  LET t == toLowerCase(s)
      p == i + 6
      w == RunEnd(s, p, SpaceSet)
  IN IF ~StartsAt(t, i, <<"a","s","s","i","g","n">>) THEN <<0, 0>>
     ELSE IF w >= p /\ StartsAt(t, w + 1, <<"t","o">>) /\ AssigneeTail(s, w + 3)[1] > 0
     THEN AssigneeTail(s, w + 3)
     ELSE AssigneeTail(s, p)

extractAssignee(text) ==
  LET hits == {i \in 1..Len(text) : AssigneeMatchAt(text, i)[1] > 0}
  IN IF hits = {} THEN null
     ELSE LET m == AssigneeMatchAt(text, SetMin(hits)) IN trim(SubSeq(text, m[1], m[2]))

\* milliseconds of a day, an hour, a minute
DayMs == 24 * 60 * 60 * 1000

HourMs == 60 * 60 * 1000

MinuteMs == 60 * 1000

\* parseInt of one or two decimal digits
parseInt(s) == DigitsValue(s)

\* text.match(/(\d{1,2})(?::(\d{2}))?\s*(am|pm)?/i) and the hour arithmetic of
\* extractPickupTime: the match starts at the first digit of the text. <<h, min>> after
\* the am/pm adjustment, null without a match.
PickupTimeMatch(text) ==
  LET digits == {i \in 1..Len(text) : text[i] \in DigitSet}
      i == SetMin(digits)
      hEnd == IF i + 1 <= Len(text) /\ text[i + 1] \in DigitSet THEN i + 1 ELSE i
      hasMin == /\ hEnd + 3 <= Len(text)
                /\ text[hEnd + 1] = ":"
                /\ text[hEnd + 2] \in DigitSet
                /\ text[hEnd + 3] \in DigitSet
      mEnd == IF hasMin THEN hEnd + 3 ELSE hEnd
      a == RunEnd(text, mEnd + 1, SpaceSet) + 1
      ampm == IF a + 1 <= Len(text) THEN toLowerCase(SubSeq(text, a, a + 1)) ELSE null
      h0 == parseInt(SubSeq(text, i, hEnd))
      min == IF hasMin THEN parseInt(SubSeq(text, hEnd + 2, hEnd + 3)) ELSE 0
      h == IF ampm = <<"p","m">> /\ h0 < 12 THEN h0 + 12
           ELSE IF ampm = <<"a","m">> /\ h0 = 12 THEN 0
           ELSE h0
  IN IF digits = {} THEN null ELSE <<h, min>>

\* /pick\s?up/i.test(text)
PickupToken(text) ==
  LET t == toLowerCase(text)
  IN \E i \in 1..Len(t) :
       StartsAt(t, i, <<"p","i","c","k">>)
       /\ (StartsAt(t, i + 4, <<"u","p">>) \/ (i + 4 <= Len(t) /\ t[i + 4] \in SpaceSet /\ StartsAt(t, i + 5, <<"u","p">>)))

\* newItem.replace(new RegExp(`\\b${rem}\\b\\s*,?\\s*`, "ig"), ""), scanning from position i
RECURSIVE RemoveWord(_, _, _)
RemoveWord(s, rem, i) ==
  IF i > Len(s) THEN <<>>
  ELSE IF /\ StartsAt(toLowerCase(s), i, toLowerCase(rem))
          /\ WordBoundary(s, i)
          /\ WordBoundary(s, i + Len(rem))
       THEN LET a == RunEnd(s, i + Len(rem), SpaceSet)
                b == IF a + 1 <= Len(s) /\ s[a + 1] = "," THEN a + 1 ELSE a
                c == RunEnd(s, b + 1, SpaceSet)
            IN RemoveWord(s, rem, c + 1)
       ELSE <<s[i]>> \o RemoveWord(s, rem, i + 1)

\* toRemove.forEach(rem => newItem = newItem.replace(re, ""))
RECURSIVE RemoveAll(_, _)
RemoveAll(s, toRemove) ==
  IF toRemove = <<>> THEN s ELSE RemoveAll(RemoveWord(s, toRemove[1], 1), Tail(toRemove))

\* s.replace(/,\s*,/g, ", "), scanning from position i
RECURSIVE CollapseCommas(_, _)
CollapseCommas(s, i) ==
  IF i > Len(s) THEN <<>>
  ELSE LET a == RunEnd(s, i + 1, SpaceSet)
       IN IF s[i] = "," /\ a + 1 <= Len(s) /\ s[a + 1] = ","
          THEN <<","," ">> \o CollapseCommas(s, a + 2)
          ELSE <<s[i]>> \o CollapseCommas(s, i + 1)

\* s.replace(/^,\s*|\s*,\s*$/g, "")
StripCommas(s) ==
  LET s1 == IF Len(s) >= 1 /\ s[1] = "," THEN SubSeq(s, RunEnd(s, 2, SpaceSet) + 1, Len(s)) ELSE s
      \* a comma followed only by whitespace up to the end
      last == {i \in 1..Len(s1) : s1[i] = "," /\ RunEnd(s1, i + 1, SpaceSet) = Len(s1)}
      \* the start of the whitespace before it
      cut == SetMin({j \in 1..SetMin(last) : \A k \in j..(SetMin(last) - 1) : s1[k] \in SpaceSet})
  IN IF last = {} THEN s1 ELSE SubSeq(s1, 1, cut - 1)

\* text.match(/cancel order ([A-Za-z0-9\-]+)/i): the captured group 1, null without a match
CancelCapture(text) ==
  LET t == toLowerCase(text)
      hits == {i \in 1..Len(t) : StartsAt(t, i, <<"c","a","n","c","e","l"," ","o","r","d","e","r"," ">>)
                                 /\ RunEnd(text, i + 13, IdCharSet) >= i + 13}
  IN IF hits = {} THEN null
     ELSE LET i == SetMin(hits) IN SubSeq(text, i + 13, RunEnd(text, i + 13, IdCharSet))

\* the address of update_address: the text after the upper-cased id, with a leading
\* "to ", "is " and ":" removed in turn; null when the split finds no second part
AddressAfter(text, trackingId) ==
  LET a0 == SplitSecond(text, trackingId)
      a1 == IF a0 = null THEN null ELSE trim(a0)
      a2 == IF a1 # null /\ startsWith(toLowerCase(a1), <<"t","o"," ">>) THEN trim(SliceFrom(a1, 4)) ELSE a1
      a3 == IF a2 # null /\ startsWith(toLowerCase(a2), <<"i","s"," ">>) THEN trim(SliceFrom(a2, 4)) ELSE a2
  IN IF a3 # null /\ startsWith(a3, <<":">>) THEN trim(SliceFrom(a3, 2)) ELSE a3

\* the items named after "add": the text after the first "add", cut before the next
\* keyword, split on commas and " and "; <<>> when /\badd\b/i does not match
AddItems(text) ==
  LET part == OrElse(SplitSecondCI(text, <<"a","d","d">>), <<>>)
      addText == BeforeKeywords(part, {<<"r","e","m","o","v","e">>, <<"s","t","a","t","u","s">>, <<"a","s","s","i","g","n">>, <<"p","i","c","k","u","p">>})
  IN IF ContainsWord(toLowerCase(text), <<"a","d","d">>) THEN SplitList(addText) ELSE <<>>

\* the items named after "remove"; <<>> when /\bremove\b/i does not match
RemoveItems(text) ==
  LET part == OrElse(SplitSecondCI(text, <<"r","e","m","o","v","e">>), <<>>)
      removeText == BeforeKeywords(part, {<<"a","d","d">>, <<"s","t","a","t","u","s">>, <<"a","s","s","i","g","n">>, <<"p","i","c","k","u","p">>})
  IN IF ContainsWord(toLowerCase(text), <<"r","e","m","o","v","e">>) THEN SplitList(removeText) ELSE <<>>

-----------------------------------------------------------------------------
(* Inputs: the stored orders a run may start with and the commands users send *)

\* most requests one run handles
MaxRequests == 2

\* most milliseconds between new Date() and Date.now() inside extractPickupTime
MaxReadLag == 1

\* a document that was in the collection before the process started (written by the
\* order routes or by an earlier run); createdAt lies age milliseconds before the epoch
SeedOrder(id, trackingId, item, status, pickupTime, age) ==
  OrderDoc([customerName |-> null, address |-> null, item |-> item, qty |-> Num(1),
            status |-> status, pickupTime |-> pickupTime, trackingId |-> trackingId,
            metadata |-> [createdBy |-> "seed", createdVia |-> "api"],
            assignedTo |-> null, amount |-> Num(200), expenses |-> Num(50)],
           id, 0 - age)

\* the id of the examples in the controller's own prompts
ORD_ABC123 == <<"O","R","D","-","A","B","C","1","2","3">>

\* an id no order carries
ORD_ZZZ999 == <<"O","R","D","-","Z","Z","Z","9","9","9">>

bread == <<"b","r","e","a","d">>

SeedStores ==
  {<<>>, <<SeedOrder(1, ORD_ABC123, bread, created, null, DayMs)>>}

Users == {"demo-user"}

\* the user ids of the conversation map: the default id and one a client sends
ChatUsers == Users \cup {"guest"}

\* the clock of the first request: 09:00:00.000 of the epoch day
StartTime == 9 * HourMs

\* milliseconds between two requests: the next one arrives a millisecond after the
\* previous one was answered
ClockSteps == {1}

\* the draws of Math.random(), as base-36 fraction digits: 0.ab30z79..., 0.i (= 0.5)
RandomDraws == {<<10, 11, 3, 0, 35, 7, 9>>, <<18>>}

\* the clock values a run can reach
ClockValues == StartTime..(StartTime + MaxRequests * (1 + MaxReadLag))

\* every tracking id a run can meet
AllIds ==
  {ORD_ABC123, ORD_ZZZ999} \cup {makeTrackingId(t, rnd) : t \in ClockValues, rnd \in RandomDraws}

\* the commands users send about the orders with the given ids
TextsAbout(ids) ==
  {<<"c","r","e","a","t","e"," ","o","r","d","e","r"," ","m","i","l","k">>, <<"I"," ","w","a","n","t"," ","t","o"," ","o","r","d","e","r"," ","j","u","i","c","e"," ","a","n","d"," ","t","r","a","c","k"," ","o","r","d","e","r"," ","O","R","D","-","A","B","C","1","2","3">>,
   <<"n","e","x","t"," ","p","i","c","k","u","p">>, <<"l","i","s","t"," ","m","y"," ","o","r","d","e","r","s">>, <<"c","a","n","c","e","l"," ","o","r","d","e","r">>, <<"h","e","l","l","o">>,
   <<"c","a","n","c","e","l"," ","o","r","d","e","r"," ","p","l","e","a","s","e">>, <<"d","e","l","e","t","e"," ","o","r","d","e","r">>, <<"u","p","d","a","t","e"," ","a","d","d","r","e","s","s">>, <<"u","p","d","a","t","e"," ","s","t","a","t","u","s"," ","s","h","i","p","p","e","d">>,
   <<"u","p","d","a","t","e"," ","a","d","d","r","e","s","s"," ","o","f"," ","o","r","d","-","a","b","c","1","2","3"," ","t","o"," ","P","u","n","e">>}
    \cup {<<"t","r","a","c","k"," ","o","r","d","e","r"," ">> \o id : id \in ids}
    \cup {<<"c","a","n","c","e","l"," ","o","r","d","e","r"," ">> \o id : id \in ids}
    \cup {<<"d","e","l","e","t","e"," ","o","r","d","e","r"," ">> \o id : id \in ids}
    \cup {<<"u","p","d","a","t","e"," ","a","d","d","r","e","s","s"," ","o","f"," ">> \o id \o <<" ","t","o"," ","P","u","n","e">> : id \in ids}
    \cup {<<"u","p","d","a","t","e"," ">> \o id \o <<" ","a","d","d"," ","j","u","i","c","e"," ","a","n","d"," ","s","t","a","t","u","s"," ","s","h","i","p","p","e","d">> : id \in ids}

\* most requests of a run in which users chat
MaxChat == 5

\* who sends what in such a run
ChatCommands ==
  {<<"demo-user", <<"h","e","l","l","o">>>>, <<"demo-user", <<"n","e","x","t"," ","p","i","c","k","u","p">>>>, <<"guest", <<"h","e","l","l","o">>>>}

\* most stored orders a run that lists orders starts with
MaxSeed == 11

\* the age of the i-th seeded document: createdAt does not follow the insertion order
SeedAge(i) == (((i * 7) % 13) + 1) * MinuteMs

SeedId(i) == <<"O","R","D","-","S","E","E","D">> \o NatToString(i)

\* a collection of n documents written before the process started
ListSeed(n) ==
  Tuple([i \in 1..n |-> SeedOrder(i, SeedId(i), bread, created, null, SeedAge(i))])

ListStores == {ListSeed(n) : n \in 0..MaxSeed}

\* the commands of a user who creates, lists and deletes orders of the collection st
ListTexts(st) ==
  {<<"c","r","e","a","t","e"," ","o","r","d","e","r"," ","m","i","l","k">>, <<"l","i","s","t"," ","m","y"," ","o","r","d","e","r","s">>, <<"s","h","o","w"," ","o","r","d","e","r","s">>}
    \cup {<<"d","e","l","e","t","e"," ","o","r","d","e","r"," ">> \o st[i].trackingId : i \in {1, Len(st)} \cap (1..Len(st))}

\* an id without a digit
ORD_ABCDEF == <<"O","R","D","-","A","B","C","D","E","F">>

\* the item of the first order of a run of updates
UpdateItems == {bread, <<"b","r","e","a","d",","," ","m","i","l","k">>, <<"m","i","l","k",","," ","B","r","e","a","d",","," ","e","g","g","s">>}

\* two stored orders, the first with one of the items
UpdateStores ==
  {<<SeedOrder(1, ORD_ABC123, item, created, null, DayMs),
     SeedOrder(2, ORD_ABCDEF, bread, created, null, 2 * DayMs)>> : item \in UpdateItems}

\* update commands that add and remove items and name pickup times
UpdateTexts ==
  {<<"u","p","d","a","t","e"," ","O","R","D","-","A","B","C","1","2","3"," ","a","d","d"," ","j","u","i","c","e"," ","r","e","m","o","v","e"," ","b","r","e","a","d">>, <<"u","p","d","a","t","e"," ","O","R","D","-","A","B","C","1","2","3"," ","a","d","d"," ","j","u","i","c","e",","," ","e","g","g","s"," ","r","e","m","o","v","e"," ","m","i","l","k">>,
   <<"u","p","d","a","t","e"," ","O","R","D","-","A","B","C","1","2","3"," ","r","e","m","o","v","e"," ","B","r","e","a","d"," ","a","n","d"," ","a","d","d"," ","j","a","m">>, <<"u","p","d","a","t","e"," ","O","R","D","-","A","B","C","1","2","3"," ","a","d","d"," ","j","u","i","c","e">>,
   <<"u","p","d","a","t","e"," ","O","R","D","-","A","B","C","1","2","3"," ","r","e","m","o","v","e"," ","m","i","l","k">>, <<"u","p","d","a","t","e"," ","O","R","D","-","A","B","C","1","2","3"," ","p","i","c","k","u","p"," ","5"," ","p","m">>,
   <<"u","p","d","a","t","e"," ","O","R","D","-","A","B","C","1","2","3"," ","s","t","a","t","u","s"," ","s","h","i","p","p","e","d"," ","a","t"," ","6"," ","p","m">>, <<"u","p","d","a","t","e"," ","O","R","D","-","A","B","C","D","E","F"," ","p","i","c","k","u","p"," ","5"," ","p","m">>,
   <<"u","p","d","a","t","e"," ","O","R","D","-","A","B","C","D","E","F"," ","p","i","c","k","u","p"," ","5",":","3","0","p","m">>, <<"u","p","d","a","t","e"," ","O","R","D","-","A","B","C","D","E","F"," ","p","i","c","k"," ","u","p"," ","a","t"," ","1","7",":","4","5">>,
   <<"u","p","d","a","t","e"," ","O","R","D","-","A","B","C","D","E","F"," ","a","t"," ","6"," ","p","m"," ","s","t","a","t","u","s"," ","s","h","i","p","p","e","d">>, <<"u","p","d","a","t","e"," ","O","R","D","-","A","B","C","D","E","F"," ","p","i","c","k","u","p">>,
   <<"u","p","d","a","t","e"," ","O","R","D","-","A","B","C","D","E","F"," ","a","d","d"," ","j","a","m"," ","r","e","m","o","v","e"," ","b","r","e","a","d"," ","p","i","c","k","u","p"," ","8"," ","a","m">>, <<"u","p","d","a","t","e"," ","o","r","d","e","r"," ","p","i","c","k","u","p"," ","5"," ","p","m">>,
   <<"u","p","d","a","t","e"," ","O","R","D","-","A","B","C","1","2","3">>, <<"P","l","e","a","s","e"," ","u","p","d","a","t","e"," ","O","R","D","-","A","B","C","D","E","F"," ","t","o","d","a","y">>}

\* the commands of clients who work on the same order at the same time
AsyncTexts ==
  {<<"u","p","d","a","t","e"," ","O","R","D","-","A","B","C","1","2","3"," ","a","d","d"," ","j","u","i","c","e">>, <<"u","p","d","a","t","e"," ","O","R","D","-","A","B","C","1","2","3"," ","a","d","d"," ","m","i","l","k">>, <<"u","p","d","a","t","e"," ","O","R","D","-","A","B","C","1","2","3">>,
   <<"u","p","d","a","t","e"," ","O","R","D","-","Z","Z","Z","9","9","9"," ","a","d","d"," ","m","i","l","k">>, <<"d","e","l","e","t","e"," ","o","r","d","e","r"," ","O","R","D","-","A","B","C","1","2","3">>, <<"d","e","l","e","t","e"," ","o","r","d","e","r">>}

\* commands that set a status, assign, cancel and ask for the next pickup
StatusCommands ==
  {<<"u","p","d","a","t","e"," ","O","R","D","-","A","B","C","D","E","F"," ","a","s","s","i","g","n"," ","t","o"," ","R","a","v","i">>, <<"u","p","d","a","t","e"," ","O","R","D","-","A","B","C","1","2","3"," ","s","t","a","t","u","s"," ","s","h","i","p","p","e","d">>,
   <<"m","a","r","k"," ","O","R","D","-","A","B","C","D","E","F"," ","d","e","l","i","v","e","r","e","d"," ","a","n","d"," ","u","p","d","a","t","e"," ","i","t">>, <<"c","h","a","n","g","e"," ","O","R","D","-","A","B","C","1","2","3"," ","t","o"," ","p","r","o","c","e","s","s","i","n","g">>,
   <<"c","a","n","c","e","l"," ","o","r","d","e","r"," ","O","R","D","-","A","B","C","1","2","3">>, <<"c","a","n","c","e","l"," ","o","r","d","e","r"," ","O","R","D","-","A","B","C","D","E","F">>, <<"n","e","x","t"," ","p","i","c","k","u","p">>, <<"c","r","e","a","t","e"," ","o","r","d","e","r"," ","m","i","l","k">>}

\* every command of a run
CommandUniverse ==
  TextsAbout(AllIds) \cup StatusCommands \cup UpdateTexts \cup AsyncTexts \cup {<<"s","h","o","w"," ","o","r","d","e","r","s">>} \cup {<<"d","e","l","e","t","e"," ","o","r","d","e","r"," ">> \o SeedId(i) : i \in 1..MaxSeed}

\* what the classifier and the deterministic extractors of aiReply find in a text
TextFields(text) ==
  [parseIntent |-> parseIntent(text),
   cancelMatch |-> CancelCapture(text),
   ordMatch |-> OrdMatch(text),
   addressMatch |-> IF OrdMatch(text) = null THEN null
                    ELSE AddressAfter(text, toUpperCase(OrdMatch(text))),
   extractTrackingIdFrom |-> extractTrackingIdFrom(text),
   extractStatus |-> extractStatus(text),
   extractAssignee |-> extractAssignee(text),
   pickupToken |-> PickupToken(text),
   pickupTimeMatch |-> PickupTimeMatch(text),
   addItems |-> AddItems(text),
   removeItems |-> RemoveItems(text)]

\* TextFields of every command, evaluated once
FieldsOf == [text \in CommandUniverse |-> TextFields(text)] @@ <<>>

On(text) == FieldsOf[text]

-----------------------------------------------------------------------------
(* aiReply *)

\* the system preamble a new user's history starts with
Preamble ==
  [role |-> "system",
   content |-> <<"Y","o","u"," ","a","r","e"," ","P","o","r","t","e","r"," ","S","a","a","t","h","i",","," ","a"," ","c","o","n","c","i","s","e"," ","t","a","s","k","-","f","o","c","u","s","e","d"," ","a","s","s","i","s","t","a","n","t"," ","f","o","r"," ","d","e","l","i","v","e","r","i","e","s",".">>]

\* the push of the user's message on a map entry that is not initialised
HistoryWithUserNoPreamble(uid, text) ==
  Append(history[uid], [role |-> "user", content |-> text])

\* conversationHistory.get(userId) after the has/set of a first request and the push of
\* the user's message
HistoryWithUser(uid, text) ==
  Append(IF history[uid] = <<>> THEN <<Preamble>> ELSE history[uid],
         [role |-> "user", content |-> text])

\* res.json(body)
Json(action, reply, order, orders, trackingId) ==
  [status |-> 200, action |-> action, reply |-> reply, order |-> order,
   orders |-> orders, trackingId |-> trackingId, error |-> null]

\* The end of every branch that answers: history.push of the reply and res.json. t is the
\* clock when the request is handled, st and nid the store after the branch's store calls.
Answer(uid, text, intent, t, out, st, nid, body) ==
  /\ requests' = requests + 1
  /\ now' = t
  /\ store' = st
  /\ nextId' = nid
  /\ history' = [history EXCEPT ![uid] =
                   Append(HistoryWithUser(uid, text), [role |-> "assistant", content |-> body.reply])]
  /\ req' = [text |-> text, userId |-> uid, intent |-> intent, db |-> "up"]
  /\ llm' = out
  /\ res' = body
  /\ UNCHANGED <<groq, calls, nav>>

\* res.status(200).json of the apology of the branch without a backend
InternalErrorApology(err) ==
  [status |-> 200, action |-> "fallback", reply |-> <<"S","o","r","r","y",","," ","I"," ","c","o","u","l","d","n","'","t"," ","p","r","o","c","e","s","s"," ","t","h","a","t"," ","r","i","g","h","t"," ","n","o","w",".">>,
   order |-> noOrder, orders |-> <<>>, trackingId |-> null, error |-> null]

\* res.status(500).json({ reply: "Internal error", error: err })
InternalError(err) ==
  [status |-> 500, action |-> "undefined", reply |-> <<"I","n","t","e","r","n","a","l"," ","e","r","r","o","r">>, order |-> noOrder,
   orders |-> <<>>, trackingId |-> null, error |-> err]

\* The catch of aiReply, entered when a call of the try block throws err: the user's
\* message is already in the history, no reply is pushed, and the response is the 500
Caught(uid, text, intent, t, out, err) ==
  /\ requests' = requests + 1
  /\ now' = t
  /\ history' = [history EXCEPT ![uid] = HistoryWithUser(uid, text)]
  /\ req' = [text |-> text, userId |-> uid, intent |-> intent,
             db |-> IF err = "MongoError" THEN "down" ELSE "up"]
  /\ llm' = out
  /\ res' = InternalError(err)
  /\ UNCHANGED <<store, nextId, groq, calls, nav>>

\* CREATE ORDER
CreateOrder(uid, text, on, t, out, rnd) ==
  /\ on.parseIntent.intent = "create_order"
  /\ LET extracted == extractOrderFieldsWithLLM(text, groq, out)
         trackingId == makeTrackingId(t, rnd)
         order == OrderDoc([customerName |-> OrElse(extracted.customerName, null),
                            address |-> OrElse(extracted.address, null),
                            item |-> extracted.item,
                            qty |-> OrElse(extracted.qty, Num(1)),
                            status |-> created,
                            pickupTime |-> OrElse(extracted.pickupTime, null),
                            trackingId |-> trackingId,
                            metadata |-> [createdBy |-> uid, createdVia |-> "voice"],
                            assignedTo |-> OrElse(extracted.assignedTo, null),
                            amount |-> OrElse(extracted.amount, Num(200)),
                            expenses |-> OrElse(extracted.expenses, Num(50))],
                           nextId, t)
         reply == <<"O","r","d","e","r"," ","c","r","e","a","t","e","d","."," ","T","r","a","c","k","i","n","g"," ","I","D"," ">> \o order.trackingId \o <<".">>
     IN Answer(uid, text, "create_order", t, out, Append(store, order), nextId + 1,
               Json("created_order", reply, order, <<>>, null))

\* TRACK ORDER
TrackOrder(uid, text, on, t) ==
  LET parsed == on.parseIntent
      i == FindOneByTrackingId(store, parsed.trackingId)
      order == store[i]
  IN /\ parsed.intent = "track_order"
     /\ IF i = 0
        THEN Answer(uid, text, "track_order", t, NoCall, store, nextId,
                    Json("order_not_found", <<"I"," ","c","o","u","l","d","n","'","t"," ","f","i","n","d"," ","o","r","d","e","r"," ">> \o parsed.trackingId \o <<".">>,
                         noOrder, <<>>, parsed.trackingId))
        ELSE Answer(uid, text, "track_order", t, NoCall, store, nextId,
                    Json("track_order",
                         <<"H","e","r","e"," ","a","r","e"," ","t","h","e"," ","d","e","t","a","i","l","s"," ","f","o","r"," ">> \o order.trackingId \o <<":"," ","\n","-"," ","C","u","s","t","o","m","e","r",":"," ">>
                           \o OrElse(order.customerName, <<"N","/","A">>) \o <<" ","\n","-"," ","I","t","e","m","s",":"," ">>
                           \o OrElse(order.item, <<"N","/","A">>) \o <<" ","\n","-"," ","A","d","d","r","e","s","s",":"," ">>
                           \o OrElse(order.address, <<"N","/","A">>) \o <<" ","\n","-"," ","S","t","a","t","u","s",":"," ">> \o order.status,
                         order, <<>>, null))

\* NEXT PICKUP
NextPickup(uid, text, on, t) ==
  /\ on.parseIntent.intent = "next_pickup"
  /\ \E i \in FindNextPickup(store) :
       IF i = 0
       THEN Answer(uid, text, "next_pickup", t, NoCall, store, nextId,
                   Json("no_pickups", <<"Y","o","u"," ","h","a","v","e"," ","n","o"," ","u","p","c","o","m","i","n","g"," ","p","i","c","k","u","p","s",".">>, noOrder, <<>>, null))
       ELSE LET next == store[i]
            IN Answer(uid, text, "next_pickup", t, NoCall, store, nextId,
                      Json("next_pickup",
                           <<"N","e","x","t"," ","p","i","c","k","u","p",":"," ">> \o next.item \o <<" ","(">> \o NumToString(next.qty) \o <<")"," ",EmDash," ">>
                             \o OrElse(next.address, <<"a","d","d","r","e","s","s"," ","n","o","t"," ","s","e","t">>) \o <<"."," ","T","r","a","c","k","i","n","g"," ","I","D"," ">>
                             \o next.trackingId \o <<".">>,
                           next, <<>>, null))

\* LIST ORDERS
ListOrders(uid, text, on, t) ==
  /\ on.parseIntent.intent = "list_orders"
  /\ \E orders \in FindRecent(store) :
       Answer(uid, text, "list_orders", t, NoCall, store, nextId,
              Json("list_orders",
                   IF Len(orders) # 0
                   THEN <<"S","h","o","w","i","n","g"," ","y","o","u","r"," ">> \o NatToString(Len(orders)) \o <<" ","m","o","s","t"," ","r","e","c","e","n","t"," ","o","r","d","e","r","s",".">>
                   ELSE <<"N","o"," ","o","r","d","e","r","s"," ","f","o","u","n","d",".">>,
                   noOrder, orders, null))

\* the not-found reply of the track and delete branches
TrackNotFoundReply(m1) == <<"I"," ","c","o","u","l","d","n","'","t"," ","f","i","n","d"," ","o","r","d","e","r"," ">> \o m1 \o <<".">>

\* the not-found reply of the cancel branch
CancelNotFoundReply(m1) == <<"C","o","u","l","d","n","'","t"," ","f","i","n","d"," ","o","r","d","e","r"," ">> \o m1 \o <<".">>

\* a write of the cancel update that also replaces the tracking id
CancelledOrderRetagged(doc, t) ==
  [doc EXCEPT !.status = cancelled, !.trackingId = ORD_ZZZ999, !.updatedAt = t]

\* Order.findOneAndUpdate({ trackingId }, { status: "cancelled" }, { new: true }): the
\* matching document after the update
CancelledOrder(doc, t) == [doc EXCEPT !.status = cancelled, !.updatedAt = t]

\* CANCEL ORDER
CancelOrder(uid, text, on, t) ==
  LET m1 == on.cancelMatch
      i == FindOneByTrackingId(store, toUpperCase(m1))
      order == CancelledOrder(store[i], t)
  IN /\ on.parseIntent.intent = "cancel_order"
     /\ IF m1 # null
        THEN IF i # 0
             THEN Answer(uid, text, "cancel_order", t, NoCall, [store EXCEPT ![i] = order], nextId,
                         Json("cancel_order", <<"O","r","d","e","r"," ">> \o order.trackingId \o <<" ","c","a","n","c","e","l","l","e","d",".">>,
                              order, <<>>, null))
             ELSE Answer(uid, text, "cancel_order", t, NoCall, store, nextId,
                         Json("cancel_order", CancelNotFoundReply(m1),
                              noOrder, <<>>, null))
        ELSE Answer(uid, text, "cancel_order", t, NoCall, store, nextId,
                    Json("ask_for_order_id",
                         <<"P","l","e","a","s","e"," ","p","r","o","v","i","d","e"," ","t","h","e"," ","o","r","d","e","r"," ","I","D"," ","t","o"," ","c","a","n","c","e","l"," ","(","e",".","g",".",","," ","'","C","a","n","c","e","l"," ","o","r","d","e","r"," ","O","R","D","-","A","B","C","1","2","3","'",")",".">>,
                         noOrder, <<>>, null))

\* the delete branch with Order.deleteMany({}) in place of findByIdAndDelete
DeleteOrderMany(uid, text, on, t) ==
  LET trackingId == on.extractTrackingIdFrom
      i == FindOneByTrackingId(store, trackingId)
  IN /\ on.parseIntent.intent = "delete_order"
     /\ IF trackingId = null
        THEN Answer(uid, text, "delete_order", t, NoCall, store, nextId,
                    Json("ask_for_order_id",
                         <<"P","l","e","a","s","e"," ","p","r","o","v","i","d","e"," ","t","h","e"," ","o","r","d","e","r"," ","I","D"," ","t","o"," ","d","e","l","e","t","e"," ","(","e",".","g",".",","," ","'","d","e","l","e","t","e"," ","o","r","d","e","r"," ","O","R","D","-","A","B","C","1","2","3","'",")",".">>,
                         noOrder, <<>>, null))
        ELSE IF i = 0
        THEN Answer(uid, text, "delete_order", t, NoCall, store, nextId,
                    Json("order_not_found", <<"I"," ","c","o","u","l","d","n","'","t"," ","f","i","n","d"," ","o","r","d","e","r"," ">> \o trackingId \o <<".">>,
                         noOrder, <<>>, trackingId))
        ELSE Answer(uid, text, "delete_order", t, NoCall, <<>>, nextId,
                    Json("delete_order", <<"O","r","d","e","r"," ">> \o trackingId \o <<" ","h","a","s"," ","b","e","e","n"," ","d","e","l","e","t","e","d",".">>,
                         [trackingId |-> trackingId], <<>>, null))

\* DELETE ORDER
DeleteOrder(uid, text, on, t) ==
  LET trackingId == on.extractTrackingIdFrom
      i == FindOneByTrackingId(store, trackingId)
  IN /\ on.parseIntent.intent = "delete_order"
     /\ IF trackingId = null
        THEN Answer(uid, text, "delete_order", t, NoCall, store, nextId,
                    Json("ask_for_order_id",
                         <<"P","l","e","a","s","e"," ","p","r","o","v","i","d","e"," ","t","h","e"," ","o","r","d","e","r"," ","I","D"," ","t","o"," ","d","e","l","e","t","e"," ","(","e",".","g",".",","," ","'","d","e","l","e","t","e"," ","o","r","d","e","r"," ","O","R","D","-","A","B","C","1","2","3","'",")",".">>,
                         noOrder, <<>>, null))
        ELSE IF i = 0
        THEN Answer(uid, text, "delete_order", t, NoCall, store, nextId,
                    Json("order_not_found", <<"I"," ","c","o","u","l","d","n","'","t"," ","f","i","n","d"," ","o","r","d","e","r"," ">> \o trackingId \o <<".">>,
                         noOrder, <<>>, trackingId))
        ELSE Answer(uid, text, "delete_order", t, NoCall, DeleteById(store, store[i]._id), nextId,
                    Json("delete_order", <<"O","r","d","e","r"," ">> \o trackingId \o <<" ","h","a","s"," ","b","e","e","n"," ","d","e","l","e","t","e","d",".">>,
                         [trackingId |-> trackingId], <<>>, null))

\* UPDATE ADDRESS
UpdateAddress(uid, text, on, t) ==
  LET m0 == on.ordMatch
      trackingId == toUpperCase(m0)
      addressMatch == on.addressMatch
      i == FindOneByTrackingId(store, trackingId)
      \* Order.findOneAndUpdate({ trackingId }, { $set: { address } }, { new: true })
      order == [store[i] EXCEPT !.address = addressMatch, !.updatedAt = t]
  IN /\ on.parseIntent.intent = "update_address"
     /\ IF m0 = null
        THEN Answer(uid, text, "update_address", t, NoCall, store, nextId,
                    Json("ask_for_order_id",
                         <<"P","l","e","a","s","e"," ","p","r","o","v","i","d","e"," ","t","h","e"," ","o","r","d","e","r"," ","I","D"," ","t","o"," ","u","p","d","a","t","e"," ","t","h","e"," ","a","d","d","r","e","s","s"," ","(","e",".","g",".",","," ","'","U","p","d","a","t","e"," ","a","d","d","r","e","s","s"," ","o","f"," ","o","r","d","e","r"," ","O","R","D","-","A","B","C","1","2","3"," ","P","u","n","e","'",")",".">>,
                         noOrder, <<>>, null))
        ELSE IF ~Truthy(addressMatch)
        THEN Answer(uid, text, "update_address", t, NoCall, store, nextId,
                    Json("ask_for_address",
                         <<"P","l","e","a","s","e"," ","p","r","o","v","i","d","e"," ","t","h","e"," ","n","e","w"," ","a","d","d","r","e","s","s"," ","a","f","t","e","r"," ","t","h","e"," ","o","r","d","e","r"," ","I","D"," ","(","e",".","g",".",","," ","'","U","p","d","a","t","e"," ","a","d","d","r","e","s","s"," ","o","f"," ","o","r","d","e","r"," ">>
                           \o trackingId \o <<" ","P","u","n","e",","," ","M","a","h","a","r","a","s","h","t","r","a","'",")",".">>,
                         noOrder, <<>>, trackingId))
        ELSE IF i = 0
        THEN Answer(uid, text, "update_address", t, NoCall, store, nextId,
                    Json("order_not_found", <<"S","o","r","r","y",","," ","I"," ","c","o","u","l","d","n","'","t"," ","f","i","n","d"," ","o","r","d","e","r"," ">> \o trackingId \o <<".">>,
                         noOrder, <<>>, trackingId))
        ELSE Answer(uid, text, "update_address", t, NoCall, [store EXCEPT ![i] = order], nextId,
                    Json("update_address",
                         <<"T","h","e"," ","a","d","d","r","e","s","s"," ","f","o","r"," ","o","r","d","e","r"," ">> \o trackingId \o <<" ","h","a","s"," ","b","e","e","n"," ","u","p","d","a","t","e","d"," ","t","o",":"," ">> \o order.address,
                         order, <<>>, null))

\* updates.item of the add branch: the stored item and the added items joined, null
\* when the branch sets nothing
AddedItem(on, item) ==
  LET items == on.addItems
  IN IF items # <<>>
     THEN IF Truthy(item) THEN item \o <<","," ">> \o Join(items) ELSE Join(items)
     ELSE null

\* updates.item of the remove branch, computed from the stored order.item; null when the
\* branch sets nothing
RemovedItem(on, item) ==
  LET toRemove == on.removeItems
  IN IF Truthy(item) /\ toRemove # <<>>
     THEN trim(StripCommas(CollapseCommas(RemoveAll(item, toRemove), 1)))
     ELSE null

\* extractPickupTime: the date of today at the matched time, a day later when that lies
\* before Date.now(). t0 is the clock read by new Date(), t1 the later read by Date.now().
extractPickupTime(on, t0, t1) ==
  LET m == on.pickupTimeMatch
      d == (t0 - (t0 % DayMs)) + m[1] * HourMs + m[2] * MinuteMs
  IN IF m = null THEN null
     ELSE IF d < t1 THEN <<"date", d + DayMs>> ELSE <<"date", d>>

\* the updates object of update_order; null marks a key that is not set. The remove
\* branch runs after the add branch and overwrites updates.item.
OrderUpdates(on, order, t0, t1) ==
  LET dt == IF on.pickupToken THEN extractPickupTime(on, t0, t1) ELSE null
      removed == RemovedItem(on, order.item)
  IN [status |-> on.extractStatus,
      pickupTime |-> dt,
      assignedTo |-> OrElse(on.extractAssignee, null),
      item |-> IF removed # null THEN removed ELSE AddedItem(on, order.item)]

\* Order.findByIdAndUpdate(order._id, updates, { new: true }) on the document st[i]
ApplyUpdates(doc, updates, t) ==
  [doc EXCEPT !.status = IF updates.status # null THEN updates.status ELSE @,
              !.pickupTime = IF updates.pickupTime # null THEN updates.pickupTime ELSE @,
              !.assignedTo = IF updates.assignedTo # null THEN updates.assignedTo ELSE @,
              !.item = IF updates.item # null THEN updates.item ELSE @,
              !.updatedAt = t]

\* new Date(pickupTime).toLocaleString(): the rendering depends on the host locale; the
\* model writes the day number since the epoch and the time of day, "D HH:MM"
toLocaleString(date) ==
  LET d == date[2]
      hh == (d % DayMs) \div HourMs
      mm == (d % HourMs) \div MinuteMs
      Two(n) == IF n < 10 THEN <<"0">> \o NatToString(n) ELSE NatToString(n)
  IN NatToString(d \div DayMs) \o <<" ">> \o Two(hh) \o <<":">> \o Two(mm)

\* the reply of update_order after the write (lines 433-442); updated is noOrder when
\* findByIdAndUpdate resolved to null
UpdatedReply(trackingId, order, updated) ==
  <<"O","r","d","e","r"," ">> \o trackingId \o <<" ","u","p","d","a","t","e","d",".","\n","-"," ","S","t","a","t","u","s",":"," ">>
    \o (IF updated # noOrder /\ updated.status # null THEN updated.status ELSE order.status)
    \o <<"\n","-"," ","P","i","c","k","u","p"," ","t","i","m","e",":"," ">>
    \o (IF updated # noOrder /\ Truthy(updated.pickupTime) THEN toLocaleString(updated.pickupTime)
        ELSE <<"n","o","t"," ","s","e","t">>)
    \o <<"\n","-"," ","A","s","s","i","g","n","e","d"," ","t","o",":"," ">>
    \o (IF updated # noOrder /\ updated.assignedTo # null THEN updated.assignedTo ELSE <<"n","o","t"," ","s","e","t">>)
    \o <<"\n","-"," ","I","t","e","m","s",":"," ">>
    \o (IF updated # noOrder /\ updated.item # null THEN updated.item ELSE <<"N","/","A">>)

\* the write and the reply of update_order without the test of Object.keys(updates)
UpdateFoundAlwaysWrites(uid, text, t1, i, order, updates) ==
  LET updated == ApplyUpdates(order, updates, t1)
  IN Answer(uid, text, "update_order", t1, NoCall, [store EXCEPT ![i] = updated], nextId,
            Json("update_order", UpdatedReply(order.trackingId, order, updated),
                 updated, <<>>, null))

\* UPDATE ORDER, once the order is found: updates is the updates object, t1 the clock at
\* the findByIdAndUpdate
UpdateFound(uid, text, t1, i, order, updates) ==
  LET updated == ApplyUpdates(order, updates, t1)
  IN IF updates.status = null /\ updates.pickupTime = null
        /\ updates.assignedTo = null /\ updates.item = null
     THEN Answer(uid, text, "update_order", t1, NoCall, store, nextId,
                 Json("update_order",
                      <<"W","h","a","t"," ","w","o","u","l","d"," ","y","o","u"," ","l","i","k","e"," ","t","o"," ","u","p","d","a","t","e","?"," ","(","s","t","a","t","u","s",","," ","p","i","c","k","u","p"," ","t","i","m","e",","," ","a","s","s","i","g","n","e","e",","," ","i","t","e","m","s",")">>,
                      order, <<>>, null))
     ELSE Answer(uid, text, "update_order", t1, NoCall, [store EXCEPT ![i] = updated], nextId,
                 Json("update_order", UpdatedReply(order.trackingId, order, updated),
                      updated, <<>>, null))

\* UPDATE ORDER
UpdateOrder(uid, text, on, t, lag) ==
  LET trackingId == on.extractTrackingIdFrom
      i == FindOneByTrackingId(store, trackingId)
  IN /\ on.parseIntent.intent = "update_order"
     /\ lag = 0 \/ (trackingId # null /\ i # 0 /\ on.pickupToken)
     /\ IF trackingId = null
        THEN Answer(uid, text, "update_order", t, NoCall, store, nextId,
                    Json("ask_for_order_id",
                         <<"P","l","e","a","s","e"," ","p","r","o","v","i","d","e"," ","a"," ","v","a","l","i","d"," ","o","r","d","e","r"," ","I","D"," ","(","e",".","g",".",","," ","O","R","D","-","A","B","C","1","2","3",")"," ","t","o"," ","u","p","d","a","t","e",".">>,
                         noOrder, <<>>, null))
        ELSE IF i = 0
        THEN Answer(uid, text, "update_order", t, NoCall, store, nextId,
                    Json("order_not_found", <<"S","o","r","r","y",","," ","I"," ","c","o","u","l","d","n","'","t"," ","f","i","n","d"," ","o","r","d","e","r"," ">> \o trackingId \o <<".">>,
                         noOrder, <<>>, trackingId))
        ELSE UpdateFound(uid, text, t + lag, i, store[i], OrderUpdates(on, store[i], t, t + lag))

\* messages kept for the chat call
MAX == 8

\* the whole history, without the slice
LastMessagesAll(h) == h

\* history.slice(-MAX)
LastMessages(h) == SubSeq(h, IF Len(h) > MAX THEN Len(h) - MAX + 1 ELSE 1, Len(h))

\* the fallback with a second chat call after one that throws; the second one answers
GeneralRetries(uid, text, on, t, out) ==
  LET trimmed == LastMessages(HistoryWithUser(uid, text))
      sent == [kind |-> out.kind, content |-> IF out.kind = "text" THEN out.content ELSE null,
               messages |-> trimmed]
  IN /\ on.parseIntent.intent = "general"
     /\ IF ~groq
        THEN /\ out = NoCall
             /\ Answer(uid, text, "general", t, NoCall, store, nextId,
                       Json("fallback", <<"S","o","r","r","y",","," ","I"," ","c","o","u","l","d","n","'","t"," ","p","r","o","c","e","s","s"," ","t","h","a","t"," ","r","i","g","h","t"," ","n","o","w",".">>, noOrder, <<>>, null))
        ELSE IF out.kind = "text"
        THEN Answer(uid, text, "general", t, sent, store, nextId,
                    Json("llm_reply", OrElse(out.content, <<"S","o","r","r","y",","," ","I"," ","d","i","d","n","'","t"," ","g","e","t"," ","t","h","a","t",".">>),
                         noOrder, <<>>, null))
        ELSE /\ out.kind = "throws"
             /\ Answer(uid, text, "general", t, sent, store, nextId,
                       Json("llm_reply", <<"H","i","!">>, noOrder, <<>>, null))

\* FALLBACK LLM and the fallback without a backend. out is the outcome of
\* groq.chat.completions.create: [kind |-> "throws"] or [kind |-> "text", content |-> c].
General(uid, text, on, t, out) ==
  LET trimmed == LastMessages(HistoryWithUser(uid, text))
      sent == [kind |-> out.kind, content |-> IF out.kind = "text" THEN out.content ELSE null,
               messages |-> trimmed]
  IN /\ on.parseIntent.intent = "general"
     /\ IF ~groq
        THEN /\ out = NoCall
             /\ Answer(uid, text, "general", t, NoCall, store, nextId,
                       Json("fallback", <<"S","o","r","r","y",","," ","I"," ","c","o","u","l","d","n","'","t"," ","p","r","o","c","e","s","s"," ","t","h","a","t"," ","r","i","g","h","t"," ","n","o","w",".">>, noOrder, <<>>, null))
        ELSE IF out.kind = "text"
        THEN Answer(uid, text, "general", t, sent, store, nextId,
                    Json("llm_reply", OrElse(out.content, <<"S","o","r","r","y",","," ","I"," ","d","i","d","n","'","t"," ","g","e","t"," ","t","h","a","t",".">>),
                         noOrder, <<>>, null))
        ELSE \* the call throws: the catch answers 500 and pushes no reply
             /\ out.kind = "throws"
             /\ Caught(uid, text, "general", t, sent, "ChatError")

\* the text of a request whose body has no text key
undefined == <<"undefined">>

\* A request without text: the user's message is pushed with content undefined and
\* parseIntent throws a TypeError at text.toLowerCase()
MissingText(uid, t) == Caught(uid, undefined, "none", t, NoCall, "TypeError")

\* the branch of the intent reaches a call of the Order store
ReachesStore(on) ==
  LET intent == on.parseIntent.intent
  IN \/ intent \in {"create_order", "track_order", "next_pickup", "list_orders"}
     \/ intent = "cancel_order" /\ on.cancelMatch # null
     \/ intent = "update_address" /\ on.ordMatch # null /\ Truthy(on.addressMatch)
     \/ intent \in {"update_order", "delete_order"} /\ on.extractTrackingIdFrom # null

\* A request whose awaited store call rejects (the database is unreachable): the error
\* passes to the catch and nothing is written. out is the outcome of the extraction
\* call, made before the store call of create_order.
StoreRejects(uid, text, on, t, out) ==
  /\ ReachesStore(on)
  /\ Caught(uid, text, on.parseIntent.intent, t,
            IF on.parseIntent.intent = "create_order" THEN out ELSE NoCall, "MongoError")

-----------------------------------------------------------------------------
(* Specification *)

\* what the extraction model may answer
ParsedObjects ==
  LET base == [customerName |-> null, address |-> null, item |-> null, qty |-> null,
               pickupTime |-> null, assignedTo |-> null, status |-> null,
               trackingId |-> null, amount |-> null, expenses |-> null]
  IN {[base EXCEPT !.item = <<"m","i","l","k">>, !.qty = Num(2), !.customerName = <<"A","s","h","a">>,
                   !.status = <<"s","h","i","p","p","e","d">>, !.trackingId = ORD_ZZZ999],
      [base EXCEPT !.qty = Num(0), !.amount = <<"3","0","0">>, !.expenses = <<"a","b","c">>],
      [base EXCEPT !.item = <<"m","i","l","k">>, !.qty = Num(0 - 3)],
      [base EXCEPT !.qty = Frac(5, 2), !.pickupTime = <<"date", StartTime + HourMs>>]}

ExtractOutcomes ==
  IF groq
  THEN {[kind |-> "throws"], [kind |-> "unparsable"]}
         \cup {[kind |-> "json", parsed |-> p] : p \in ParsedObjects}
  ELSE {NoCall}

ChatOutcomes ==
  IF groq
  THEN {[kind |-> "throws"], [kind |-> "text", content |-> <<"H","i","!">>], [kind |-> "text", content |-> <<>>]}
  ELSE {NoCall}

\* the tracking ids a user may name: those of the stored orders, the id of the seeded
\* order (stored or not) and an id no order carries
KnownIds == {store[i].trackingId : i \in 1..Len(store)} \cup {ORD_ABC123, ORD_ZZZ999}

\* the commands a user may send
Texts == TextsAbout(KnownIds)

\* the state of a process that has started over the collection of one of the stores
Start(stores) ==
  /\ store \in stores
  /\ nextId = Len(store) + 1
  /\ history = [u \in ChatUsers |-> <<>>]
  /\ groq \in BOOLEAN
  /\ now = StartTime
  /\ req = [text |-> <<>>, userId |-> "", intent |-> "none", db |-> "up"]
  /\ llm = NoCall
  /\ res = [status |-> 0, action |-> "none", reply |-> <<>>, order |-> noOrder,
            orders |-> <<>>, trackingId |-> null, error |-> null]
  /\ requests = 0
  /\ calls = <<>>
  /\ nav = NavInit

Init == Start(SeedStores)

\* the requests a client may send now: the user, the text and the time since the
\* previous request; none once the run has handled MaxRequests requests
Requests == IF requests < MaxRequests THEN Users \X Texts \X ClockSteps ELSE {}

\* POST /api/ai/reply: one request, answered by the branch of its intent. On(r[2]) holds
\* what the handler's regexes match in the text.
Next ==
  \/ \E r \in Requests, out \in ExtractOutcomes, rnd \in RandomDraws :
       CreateOrder(r[1], r[2], On(r[2]), now + r[3], out, rnd)
  \/ \E r \in Requests : TrackOrder(r[1], r[2], On(r[2]), now + r[3])
  \/ \E r \in Requests : NextPickup(r[1], r[2], On(r[2]), now + r[3])
  \/ \E r \in Requests : ListOrders(r[1], r[2], On(r[2]), now + r[3])
  \/ \E r \in Requests : CancelOrder(r[1], r[2], On(r[2]), now + r[3])
  \/ \E r \in Requests : UpdateAddress(r[1], r[2], On(r[2]), now + r[3])
  \/ \E r \in Requests, lag \in 0..MaxReadLag :
       UpdateOrder(r[1], r[2], On(r[2]), now + r[3], lag)
  \/ \E r \in Requests : DeleteOrder(r[1], r[2], On(r[2]), now + r[3])
  \/ \E r \in Requests, out \in ChatOutcomes : General(r[1], r[2], On(r[2]), now + r[3], out)
  \/ \E u \in Users, dt \in ClockSteps : requests < MaxRequests /\ MissingText(u, now + dt)

Spec == Init /\ [][Next]_vars

\* A process over a collection of up to MaxSeed orders, serving a user who creates, lists
\* and deletes orders
InitList == Start(ListStores)

ListRequests ==
  IF requests < MaxRequests THEN Users \X ListTexts(store) \X ClockSteps ELSE {}

NextList ==
  \/ \E r \in ListRequests, out \in ExtractOutcomes, rnd \in RandomDraws :
       CreateOrder(r[1], r[2], On(r[2]), now + r[3], out, rnd)
  \/ \E r \in ListRequests : ListOrders(r[1], r[2], On(r[2]), now + r[3])
  \/ \E r \in ListRequests : DeleteOrder(r[1], r[2], On(r[2]), now + r[3])

SpecList == InitList /\ [][NextList]_vars

\* A process that has served its users for a while: two users chat and ask for the next
\* pickup, over a store whose calls may reject
InitChat == Start({<<SeedOrder(1, ORD_ABC123, bread, created, null, DayMs)>>})

ChatRequests == IF requests < MaxChat THEN ChatCommands \X ClockSteps ELSE {}

NextChat ==
  \/ \E r \in ChatRequests, out \in ChatOutcomes :
       General(r[1][1], r[1][2], On(r[1][2]), now + r[2], out)
  \/ \E r \in ChatRequests : NextPickup(r[1][1], r[1][2], On(r[1][2]), now + r[2])
  \/ \E r \in ChatRequests, out \in ExtractOutcomes :
       StoreRejects(r[1][1], r[1][2], On(r[1][2]), now + r[2], out)
  \/ \E u \in Users, dt \in ClockSteps : requests < MaxChat /\ MissingText(u, now + dt)

SpecChat == InitChat /\ [][NextChat]_vars

-----------------------------------------------------------------------------
(* Properties *)

Last(s) == s[Len(s)]

\* the create-order phrases
CreatePhrases ==
  {<<"c","r","e","a","t","e"," ","o","r","d","e","r">>, <<"p","l","a","c","e"," ","o","r","d","e","r">>, <<"n","e","w"," ","o","r","d","e","r">>, <<"a","d","d"," ","o","r","d","e","r">>, <<"i"," ","w","a","n","t"," ","t","o"," ","o","r","d","e","r">>}

HasCreatePhrase(text) == \E p \in CreatePhrases : Contains(toLowerCase(text), p)

\* texts around a create-order phrase, written in lower or upper case, that also hold
\* the phrases and ids of the other intents
PhraseTexts ==
  {before \o phrase \o after :
     before \in {<<>>, <<"p","l","e","a","s","e"," ","t","r","a","c","k"," ","a","n","d"," ","u","p","d","a","t","e",":"," ">>},
     phrase \in CreatePhrases \cup {toUpperCase(p) : p \in CreatePhrases},
     after \in {<<" ","m","i","l","k">>, <<" ","a","n","d"," ","t","r","a","c","k"," ","o","r","d","e","r"," ","O","R","D","-","A","B","C","1","2","3">>, <<","," ","t","h","e","n"," ","c","a","n","c","e","l"," ","o","r","d","e","r"," ","O","R","D","-","A","B","C","1","2","3">>,
                <<" ","a","n","d"," ","d","e","l","e","t","e"," ","o","r","d","e","r"," ","O","R","D","-","A","B","C","1","2","3">>, <<" ","u","p","d","a","t","e"," ","a","d","d","r","e","s","s"," ","o","f"," ","O","R","D","-","A","B","C","1","2","3"," ","t","o"," ","P","u","n","e">>,
                <<","," ","l","i","s","t"," ","m","y"," ","o","r","d","e","r","s",","," ","n","e","x","t"," ","p","i","c","k","u","p">>}}

\* the classifier answers create_order for every one of them
PhraseTextsCreate == \A text \in PhraseTexts : parseIntent(text).intent = "create_order"

\* ^ORD-[A-Z0-9]+$
IsOrdUpper(id) ==
  /\ startsWith(id, ORD_)
  /\ Len(id) > Len(ORD_)
  /\ \A k \in (Len(ORD_) + 1)..Len(id) : id[k] \in UpperSet \cup DigitSet

\* C1: an order created by create_order, with returned tracking id T and item I, is found
\* by an immediately following 'track order T': the action is track_order and the order
\* returned has tracking id T and item I.
C1_CreateThenTrack ==
  [][(res.action = "created_order" /\ req'.text = <<"t","r","a","c","k"," ","o","r","d","e","r"," ">> \o res.order.trackingId)
       => /\ res'.action = "track_order"
          /\ res'.order.trackingId = res.order.trackingId
          /\ res'.order.item = res.order.item]_vars

\* C2: every text around a create-order phrase is classified create_order, and a
\* request whose text contains a create-order phrase is answered created_order; exactly
\* one order is appended to the store, with status created whatever the extractor
\* returned, with a tracking id made by makeTrackingId at this request that no stored
\* order carried, and the reply contains that id.
C2_CreateOrderCreates ==
  [][HasCreatePhrase(req'.text)
       => /\ PhraseTextsCreate
          /\ res'.action = "created_order"
          /\ Len(store') = Len(store) + 1
          /\ SubSeq(store', 1, Len(store)) = store
          /\ Last(store') = res'.order
          /\ Last(store').status = created
          /\ \E rnd \in RandomDraws : Last(store').trackingId = makeTrackingId(now', rnd)
          /\ \A i \in 1..Len(store) : store[i].trackingId # Last(store').trackingId
          /\ Contains(res'.reply, Last(store').trackingId)]_vars

\* a create request whose text also holds a track phrase and whose extractor answered
\* another status and another tracking id
C2_Witness ==
  /\ req.text = <<"I"," ","w","a","n","t"," ","t","o"," ","o","r","d","e","r"," ","j","u","i","c","e"," ","a","n","d"," ","t","r","a","c","k"," ","o","r","d","e","r"," ","O","R","D","-","A","B","C","1","2","3">>
  /\ res.action = "created_order"
  /\ llm.kind = "json"
  /\ llm.parsed.status = <<"s","h","i","p","p","e","d">>
  /\ llm.parsed.trackingId = ORD_ZZZ999
  /\ res.order.status = created
  /\ store # <<>> /\ Last(store) = res.order

\* C3: the tracking id of every order create_order answers with matches ^ORD-[A-Z0-9]+$.
C3_TrackingIdFormat ==
  res.action = "created_order" => IsOrdUpper(res.order.trackingId)

\* C4: every stored order has an integer qty of at least 1.
C4_QtyPositiveInteger ==
  \A i \in 1..Len(store) :
    /\ IsNum(store[i].qty)
    /\ store[i].qty[3] = 1
    /\ store[i].qty[2] >= 1

\* C5: a create_order whose extraction backend is not configured, throws, or answers
\* text that does not parse is answered 200 created_order, and the stored order has
\* item = the text, qty 1, amount 200, expenses 50 and no customerName, address,
\* pickupTime or assignee.
C5_ExtractionFallback ==
  (req.intent = "create_order" /\ llm.kind \in {"none", "throws", "unparsable"})
    => /\ res.status = 200
       /\ res.action = "created_order"
       /\ Last(store) = res.order
       /\ res.order.item = req.text
       /\ res.order.qty = Num(1)
       /\ res.order.amount = Num(200)
       /\ res.order.expenses = Num(50)
       /\ res.order.customerName = null
       /\ res.order.address = null
       /\ res.order.pickupTime = null
       /\ res.order.assignedTo = null

\* a create request whose extraction call threw
C5_Witness ==
  /\ groq
  /\ req.intent = "create_order"
  /\ llm.kind = "throws"
  /\ res.action = "created_order"

\* C6: 'cancel order T' for the tracking id T of a stored order sets that order's status
\* to cancelled, changes nothing else of it (but the store's updatedAt) and no other
\* order, and answers cancel_order with the updated order.
C6_CancelStoredOrder ==
  [][\A i \in 1..Len(store) :
       req'.text = <<"c","a","n","c","e","l"," ","o","r","d","e","r"," ">> \o store[i].trackingId
         => /\ res'.action = "cancel_order"
            /\ Len(store') = Len(store)
            /\ store'[i] = [store[i] EXCEPT !.status = cancelled,
                                            !.updatedAt = store'[i].updatedAt]
            /\ \A j \in 1..Len(store) : j # i => store'[j] = store[j]
            /\ res'.order = store'[i]]_vars

\* C7: 'cancel order <id>' for an id that no stored order carries (in any letter case)
\* is answered cancel_order with order null and a reply containing "Couldn't find", and
\* the store is unchanged.
C7_CancelUnknown ==
  [][\A id \in AllIds :
       (/\ req'.text = <<"c","a","n","c","e","l"," ","o","r","d","e","r"," ">> \o id
        /\ \A i \in 1..Len(store) : toUpperCase(store[i].trackingId) # toUpperCase(id))
         => /\ res'.action = "cancel_order"
            /\ res'.order = noOrder
            /\ Contains(res'.reply, <<"C","o","u","l","d","n","'","t"," ","f","i","n","d">>)
            /\ store' = store]_vars

\* a cancel of an unknown id, answered over a store that holds an order
C7_Witness ==
  /\ req.text = <<"c","a","n","c","e","l"," ","o","r","d","e","r"," ","O","R","D","-","Z","Z","Z","9","9","9">>
  /\ res.action = "cancel_order"
  /\ res.order = noOrder
  /\ store # <<>>

\* C8: 'update T add juice and status shipped' for the tracking id T of a stored order
\* with item I is answered update_order and writes item = I, ", juice" and status
\* shipped.
C8_AddAndStatus ==
  [][\A i \in 1..Len(store) :
       req'.text = <<"u","p","d","a","t","e"," ">> \o store[i].trackingId \o <<" ","a","d","d"," ","j","u","i","c","e"," ","a","n","d"," ","s","t","a","t","u","s"," ","s","h","i","p","p","e","d">>
         => /\ res'.action = "update_order"
            /\ Len(store') = Len(store)
            /\ store'[i].item = store[i].item \o <<","," ","j","u","i","c","e">>
            /\ store'[i].status = <<"s","h","i","p","p","e","d">>]_vars

\* C9: list_orders answers with min(n, 10) of the n stored orders, in descending
\* createdAt, and no order left out was created after one that is returned.
C9_ListOrders ==
  req.intent = "list_orders"
    => LET r == res.orders
       IN /\ Len(r) <= 10
          /\ Len(r) = (IF Len(store) < 10 THEN Len(store) ELSE 10)
          /\ \A k \in 1..(Len(r) - 1) : r[k].createdAt >= r[k + 1].createdAt
          /\ \A k \in 1..Len(r) : \E i \in 1..Len(store) : store[i] = r[k]
          /\ \A k, l \in 1..Len(r) : k # l => r[k]._id # r[l]._id
          /\ \A i \in 1..Len(store) :
               (\A k \in 1..Len(r) : r[k]._id # store[i]._id)
                 => \A k \in 1..Len(r) : store[i].createdAt <= r[k].createdAt

\* a list request over more than 10 stored orders, one of them created in this run
C9_Witness ==
  /\ req.intent = "list_orders"
  /\ Len(store) > 10
  /\ Len(res.orders) = 10
  /\ \E i \in 1..Len(store) : store[i].metadata.createdVia = "voice"

\* C10: 'delete order T' for the tracking id T of a stored order is answered
\* delete_order and removes that order.
C10_DeleteStoredOrder ==
  [][\A i \in 1..Len(store) :
       req'.text = <<"d","e","l","e","t","e"," ","o","r","d","e","r"," ">> \o store[i].trackingId
         => /\ res'.action = "delete_order"
            /\ \A j \in 1..Len(store') : store'[j]._id # store[i]._id]_vars

\* the address an update_address command names: the text after the ORD- token of the
\* text, wherever the token stands, without a leading "to ", "is " or ":"
AddressNamed(text) ==
  LET m0 == OrdMatch(text)
      i == IndexOf(toLowerCase(text), toLowerCase(m0))
      rest == trim(SliceFrom(text, i + Len(m0)))
      Strip(a, p) == IF startsWith(toLowerCase(a), p) THEN trim(SliceFrom(a, Len(p) + 1)) ELSE a
  IN Strip(Strip(Strip(rest, <<"t","o"," ">>), <<"i","s"," ">>), <<":">>)

\* C11: an update_address command that names a stored order's tracking id, in whatever
\* letter case and wherever in the text, followed by an address, sets that order's address
\* to the text after the id (without a leading "to ", "is " or ":"), changes no other
\* field, and answers update_address with the updated order.
C11_UpdateAddress ==
  [][\A i \in 1..Len(store) :
       (/\ req'.intent = "update_address"
        /\ OrdMatch(req'.text) # null
        /\ toUpperCase(OrdMatch(req'.text)) = toUpperCase(store[i].trackingId)
        /\ AddressNamed(req'.text) # <<>>)
       => /\ res'.action = "update_address"
          /\ Len(store') = Len(store)
          /\ store'[i] = [store[i] EXCEPT !.address = AddressNamed(req'.text),
                                          !.updatedAt = now']
          /\ res'.order = store'[i]]_vars

\* C12: next_pickup answers with the order that has the earliest pickupTime among the
\* orders with status created, assigned or pending, also when some of them have no
\* pickupTime (no eligible order has an earlier pickupTime than the one returned), and
\* answers no_pickups when no order is eligible.
C12_NextPickupEarliest ==
  [][req'.intent = "next_pickup" =>
       LET elig == {i \in 1..Len(store) : store[i].status \in PickupStatuses}
       IN IF elig = {} THEN res'.action = "no_pickups"
          ELSE /\ res'.action = "next_pickup"
               /\ \E i \in elig : res'.order = store[i]
               /\ \A j \in elig :
                    store[j].pickupTime # null =>
                      /\ res'.order.pickupTime # null
                      /\ res'.order.pickupTime[2] <= store[j].pickupTime[2]]_vars

\* the intents whose command has to name an order
IdIntents == {"cancel_order", "update_address", "update_order", "delete_order"}

\* C13: a cancel_order, update_address, update_order or delete_order command whose text
\* holds no order id is answered with ask_for_order_id (an update_address command that
\* holds the id but no address: with ask_for_address), with HTTP status 200, and the
\* store is left as it was.
C13_AskForOrderId ==
  [][req'.intent \in IdIntents =>
       /\ OrdMatch(req'.text) = null =>
            res'.action = "ask_for_order_id" /\ res'.status = 200 /\ store' = store
       /\ (/\ req'.intent = "update_address"
           /\ OrdMatch(req'.text) # null
           /\ AddressNamed(req'.text) = <<>>) =>
            res'.action = "ask_for_address" /\ res'.status = 200 /\ store' = store]_vars

\* C14: a track_order, cancel_order, update_address, update_order or delete_order command
\* that names a tracking id no stored order carries (in any letter case) is answered with
\* action order_not_found and HTTP status 200, and the store is left as it was.
C14_OrderNotFound ==
  [][(/\ req'.intent \in IdIntents \cup {"track_order"}
      /\ OrdMatch(req'.text) # null
      /\ req'.intent = "update_address" => AddressNamed(req'.text) # <<>>
      /\ \A i \in 1..Len(store) :
           toUpperCase(store[i].trackingId) # toUpperCase(OrdMatch(req'.text)))
     => res'.action = "order_not_found" /\ res'.status = 200 /\ store' = store]_vars

\* the apology of the general path
Apology == <<"S","o","r","r","y",","," ","I"," ","c","o","u","l","d","n","'","t"," ","p","r","o","c","e","s","s"," ","t","h","a","t"," ","r","i","g","h","t"," ","n","o","w",".">>

\* C15: when the chat call of the general path throws, the caller receives the fixed
\* apology with HTTP status 200; the failure is not passed on as an error response.
C15_ChatFailureApology ==
  [][(req'.intent = "general" /\ llm'.kind = "throws")
     => res'.status = 200 /\ res'.reply = Apology /\ res'.error = null]_vars

\* a call inside the try block of the request just handled threw: the chat call of the
\* general path, text.toLowerCase() of a request without text, or a store call
Threw ==
  \/ req.intent = "general" /\ llm.kind = "throws"
  \/ req.text = undefined
  \/ req.db = "down"

\* C16: a failure of the chat call on the general path, and any other error thrown while
\* a request is handled, is answered with HTTP 500, the reply 'Internal error' and the
\* error itself; nothing is written, and the process goes on serving requests.
C16_InternalError ==
  /\ [](Threw => /\ res.status = 500
                 /\ res.reply = <<"I","n","t","e","r","n","a","l"," ","e","r","r","o","r">>
                 /\ res.error \in {"ChatError", "TypeError", "MongoError"})
  /\ [][Threw' => store' = store /\ nextId' = nextId /\ groq' = groq]_vars
  /\ [](res.status = 500 /\ requests < MaxChat => ENABLED <<NextChat>>_vars)

\* a request is answered with 200 after the chat call of an earlier request of the same
\* user threw: that request's 'hello' is in the history without a reply
C16_Witness ==
  /\ groq
  /\ res.status = 200
  /\ \E k \in 1..(Len(history[req.userId]) - 1) :
       /\ history[req.userId][k] = [role |-> "user", content |-> <<"h","e","l","l","o">>]
       /\ history[req.userId][k + 1].role = "user"

\* C17: every request of user u, whichever branch handles it and also when it ends in an
\* error response, appends exactly two messages to u's conversation context: the user's
\* utterance and then the reply returned to the caller.
C17_HistoryGrowsByTwo ==
  [][requests' = requests + 1 =>
       LET u == req'.userId
           before == IF history[u] = <<>> THEN <<Preamble>> ELSE history[u]
       IN history'[u] = before \o <<[role |-> "user", content |-> req'.text],
                                    [role |-> "assistant", content |-> res'.reply]>>]_vars

\* C18: the message sequence of every user in the conversation map starts with the system
\* preamble; a request only appends to the sequence of its own user: stored messages are
\* never removed, replaced or reordered, and the sequences of other users do not change.
C18_HistoryPreambleAppendOnly ==
  /\ [](\A u \in ChatUsers : history[u] # <<>> => history[u][1] = Preamble)
  /\ [][\A u \in ChatUsers :
          /\ Len(history'[u]) >= Len(history[u])
          /\ SubSeq(history'[u], 1, Len(history[u])) = history[u]
          /\ u # req'.userId => history'[u] = history[u]]_vars

\* both users have a context, and the request just handled extended a context that
\* already held two earlier exchanges
C18_Witness ==
  /\ \A u \in ChatUsers : history[u] # <<>>
  /\ Len(history[req.userId]) >= 7

\* C19: on the general path with a backend, the messages sent to the chat call are the
\* last min(8, n) messages of the user's stored context of n messages, oldest first and
\* ending with the current utterance; never more than 8.
C19_LastEightSent ==
  (req.intent = "general" /\ llm.kind \in {"text", "throws"}) =>
    LET h == history[req.userId]
        \* the context when the call was made ends with the utterance: the reply of an
        \* answered request was pushed after the call
        n == IF res.status = 200 THEN Len(h) - 1 ELSE Len(h)
        k == IF n < 8 THEN n ELSE 8
    IN /\ llm.messages = SubSeq(h, n - k + 1, n)
       /\ Len(llm.messages) <= 8
       /\ llm.messages[Len(llm.messages)] = [role |-> "user", content |-> req.text]

\* a chat call made when the stored context held more than 8 messages
C19_Witness ==
  /\ req.intent = "general"
  /\ llm.kind = "text"
  /\ Len(history[req.userId]) > 9
  /\ Len(llm.messages) = 8

\* C20: the trackingId of an order is set when the order is created and never changes:
\* whatever command is handled, every order that stays in the store keeps its trackingId,
\* and an order that enters the store carries the id the create branch made for it.
C20_TrackingIdImmutable ==
  [][/\ \A i \in 1..Len(store) : \A j \in 1..Len(store') :
          store'[j]._id = store[i]._id => store'[j].trackingId = store[i].trackingId
     /\ \A j \in 1..Len(store') :
          (\A i \in 1..Len(store) : store[i]._id # store'[j]._id) =>
            /\ req'.intent = "create_order"
            /\ store'[j].trackingId = res'.order.trackingId
            /\ startsWith(store'[j].trackingId, ORD_)]_vars

\* an order that a cancel_order, update_address or update_order command has written to
C20_Witness ==
  /\ req.intent \in {"cancel_order", "update_address", "update_order"}
  /\ \E i \in 1..Len(store) :
       /\ store[i].updatedAt = now
       /\ store[i].createdAt < now
       /\ res.order = store[i]

-----------------------------------------------------------------------------
(* The classifier and the extractors as functions of a text and the clock *)

\* phrases that trigger the rules of the classifier, and phrases that trigger none
RulePhrases ==
  {<<"c","r","e","a","t","e"," ","o","r","d","e","r">>, <<"t","r","a","c","k"," ","o","r","d","e","r"," ","7">>, <<"w","h","e","r","e"," ","i","s"," ","o","r","d","e","r"," ","7">>, <<"n","e","x","t"," ","p","i","c","k","u","p">>, <<"l","i","s","t"," ","m","y"," ","o","r","d","e","r","s">>,
   <<"c","a","n","c","e","l"," ","o","r","d","e","r">>, <<"r","e","m","o","v","e"," ","o","r","d","e","r">>, <<"u","p","d","a","t","e"," ","a","d","d","r","e","s","s">>, <<"m","o","d","i","f","y">>, <<"h","e","l","l","o">>, <<"c","a","n","c","e","l"," ","o","r","d","e","r","s">>}

\* texts holding one or two of the phrases, in lower or upper case
IntentTexts ==
  RulePhrases \cup {<<"u","p","d","a","t","e"," ","a","d","d","r","e","s","s"," ","o","f"," ","O","R","D","-","1">>, <<"P","l","e","a","s","e"," ","U","P","D","A","T","E"," ","i","t">>, <<"u","p","d","a","t","e","d">>, <<"t","r","a","c","k">>}
    \cup {a \o <<" ">> \o b : a \in RulePhrases, b \in RulePhrases}
    \cup {toUpperCase(a) \o <<" ","t","h","e","n"," ">> \o b : a \in RulePhrases, b \in {<<"m","o","d","i","f","y">>, <<"c","r","e","a","t","e"," ","o","r","d","e","r">>}}

\* texts around an id written in lower, upper and mixed case
IdTexts ==
  {before \o id \o after :
     before \in {<<>>, <<"s","h","i","p"," ">>, <<"x","x">>, <<"F","O","R","D","-","1"," ">>, <<"_">>},
     id \in {<<"o","r","d","-","a","b","c","1","2","3">>, <<"O","R","D","-","A","B","C","1","2","3">>, <<"O","r","d","-","a","B","c","1">>, <<"O","R","D","-">>, <<"o","r","d","e","r">>},
     after \in {<<>>, <<" ","n","o","w">>, <<"_","x">>, <<"-","9">>, <<" ","a","n","d"," ","O","R","D","-","Z","Z","Z","9","9","9">>}}

\* the texts the functions are applied to
\* texts about tracking, with and without an id behind the phrase
TrackTexts ==
  {<<"t","r","a","c","k"," ","o","r","d","e","r"," ","O","R","D","-","A","B","C","1","2","3">>, <<"W","h","e","r","e"," ","i","s"," ","o","r","d","e","r"," ","o","r","d","-","a","b","c","1","2","3"," ","n","o","w">>, <<"t","r","a","c","k"," ","o","r","d","e","r">>, <<"t","r","a","c","k"," ","m","y"," ","p","a","r","c","e","l">>,
   <<"t","r","a","c","k"," ","O","R","D","-","A","B","C","1","2","3">>, <<"p","l","e","a","s","e"," ","t","r","a","c","k"," ","o","r","d","e","r">>, <<"w","h","e","r","e"," ","i","s"," ","o","r","d","e","r">>, <<"w","h","e","r","e"," ","i","s"," ","m","y"," ","o","r","d","e","r">>}

\* texts with the status words in both orders, inside longer words and in upper case
StatusTexts ==
  {<<"s","h","i","p","p","e","d"," ","t","h","e","n"," ","d","e","l","i","v","e","r","e","d">>, <<"d","e","l","i","v","e","r","e","d"," ","t","h","e","n"," ","s","h","i","p","p","e","d">>, <<"p","r","o","c","e","s","s","i","n","g"," ","a","n","d"," ","s","h","i","p","p","e","d">>, <<"m","a","r","k"," ","S","H","I","P","P","E","D">>,
   <<"u","n","d","e","l","i","v","e","r","e","d">>, <<"r","e","s","h","i","p","p","e","d"," ","t","o","d","a","y">>, <<"s","t","a","t","u","s"," ","p","e","n","d","i","n","g">>, <<"s","h","i","p","p","e","d","-","o","u","t",","," ","p","r","o","c","e","s","s","i","n","g">>}

PureTexts == IntentTexts \cup IdTexts \cup {<<"5"," ","p","m">>} \cup TrackTexts \cup StatusTexts

\* 17:00:00.000 of the epoch day
FivePm == 17 * HourMs

\* the clock when a function is applied
PureClocks == {StartTime, FivePm - 1, FivePm, FivePm + 1}

\* a text and a clock, and no function applied yet
InitPure ==
  /\ store = <<>>
  /\ nextId = 1
  /\ history = [u \in ChatUsers |-> <<>>]
  /\ groq = FALSE
  /\ now \in PureClocks
  /\ req \in {[text |-> text, userId |-> "", intent |-> "none", db |-> "up"] : text \in PureTexts}
  /\ llm = NoCall
  /\ res = [fn |-> "none", value |-> null, date |-> now]
  /\ requests = 0
  /\ calls = <<>>
  /\ nav = NavInit

\* parseIntent(text)
ApplyParseIntent ==
  /\ res.fn = "none"
  /\ res' = [fn |-> "parseIntent", value |-> parseIntent(req.text), date |-> now]
  /\ UNCHANGED <<store, nextId, history, groq, now, req, llm, requests, calls, nav>>

\* extractTrackingIdFrom(text)
ApplyExtractTrackingIdFrom ==
  /\ res.fn = "none"
  /\ res' = [fn |-> "extractTrackingIdFrom", value |-> extractTrackingIdFrom(req.text),
             date |-> now]
  /\ UNCHANGED <<store, nextId, history, groq, now, req, llm, requests, calls, nav>>

\* extractPickupTime(text): new Date() reads the clock, Date.now() reads it lag
\* milliseconds later
ApplyExtractPickupTime(lag) ==
  /\ res.fn = "none"
  /\ res' = [fn |-> "extractPickupTime",
             value |-> extractPickupTime([pickupTimeMatch |-> PickupTimeMatch(req.text)],
                                         now, now + lag),
             date |-> now]
  /\ now' = now + lag
  /\ UNCHANGED <<store, nextId, history, groq, req, llm, requests, calls, nav>>

\* extractStatus(text)
ApplyExtractStatus ==
  /\ res.fn = "none"
  /\ res' = [fn |-> "extractStatus", value |-> extractStatus(req.text), date |-> now]
  /\ UNCHANGED <<store, nextId, history, groq, now, req, llm, requests, calls, nav>>

NextPure ==
  \/ ApplyParseIntent
  \/ ApplyExtractTrackingIdFrom
  \/ ApplyExtractStatus
  \/ \E lag \in 0..MaxReadLag : ApplyExtractPickupTime(lag)

SpecPure == InitPure /\ [][NextPure]_vars

\* the rules of the classifier in the order the claim gives, and the pattern of each
RuleOrder ==
  <<"create_order", "track_order", "next_pickup", "list_orders", "cancel_order",
    "delete_order", "update_address", "update_order">>

RuleMatches(intent, t) ==
  CASE intent = "create_order" -> CreateOrderRule(t)
    [] intent = "track_order" -> TrackCapture(t) # null
    [] intent = "next_pickup" -> NextPickupRule(t)
    [] intent = "list_orders" -> ListOrdersRule(t)
    [] intent = "cancel_order" -> CancelOrderRule(t)
    [] intent = "delete_order" -> DeleteOrderRule(t)
    [] intent = "update_address" -> UpdateAddressRule(t)
    [] intent = "update_order" -> UpdateOrderRule(t)

\* C21: the classifier answers the intent of the first rule, in the order create_order,
\* track_order, next_pickup, list_orders, cancel_order, delete_order, update_address,
\* update_order, whose pattern matches the lower-cased text, and general exactly when no
\* rule matches; 'update address of ORD-1' is update_address.
C21_FirstMatchingRule ==
  res.fn = "parseIntent" =>
    LET t == toLowerCase(req.text)
        hits == {k \in 1..Len(RuleOrder) : RuleMatches(RuleOrder[k], t)}
    IN /\ res.value.intent = IF hits = {} THEN "general" ELSE RuleOrder[SetMin(hits)]
       /\ req.text = <<"u","p","d","a","t","e"," ","a","d","d","r","e","s","s"," ","o","f"," ","O","R","D","-","1">> => res.value.intent = "update_address"
       /\ req.text = <<"P","l","e","a","s","e"," ","U","P","D","A","T","E"," ","i","t">> => res.value.intent = "update_order"
       /\ req.text = <<"C","A","N","C","E","L"," ","O","R","D","E","R"," ","t","h","e","n"," ","c","r","e","a","t","e"," ","o","r","d","e","r">> => res.value.intent = "create_order"
       /\ req.text = <<"r","e","m","o","v","e"," ","o","r","d","e","r"," ","u","p","d","a","t","e"," ","a","d","d","r","e","s","s">> => res.value.intent = "delete_order"
       /\ req.text = <<"t","r","a","c","k"," ","o","r","d","e","r"," ","7"," ","n","e","x","t"," ","p","i","c","k","u","p">> => res.value.intent = "track_order"
       /\ req.text \in {<<"c","a","n","c","e","l"," ","o","r","d","e","r","s">>, <<"u","p","d","a","t","e","d">>, <<"t","r","a","c","k">>, <<"h","e","l","l","o">>} =>
            res.value.intent = "general"

\* a text that matches the update_address rule and the update_order rule and no earlier one
C21_Witness ==
  /\ res.fn = "parseIntent"
  /\ req.text = <<"u","p","d","a","t","e"," ","a","d","d","r","e","s","s"," ","o","f"," ","O","R","D","-","1">>
  /\ {k \in 1..Len(RuleOrder) : RuleMatches(RuleOrder[k], toLowerCase(req.text))} = {7, 8}
  /\ res.value.intent = "update_address"

\* the first ORD-<alphanumeric> token of a text as it is written: "ord-" in any letter
\* case and one or more letters or digits, standing as a word of its own; null when the
\* text holds none
FirstOrdToken(text) ==
  LET IsToken(i, j) ==
        /\ i + 4 <= j
        /\ j <= Len(text)
        /\ toLowerCase(SubSeq(text, i, i + 3)) = <<"o","r","d","-">>
        /\ \A k \in (i + 4)..j : text[k] \in AlnumSet
        /\ i = 1 \/ text[i - 1] \notin WordSet
        /\ j = Len(text) \/ text[j + 1] \notin WordSet
      tokens == {p \in (1..Len(text)) \X (1..Len(text)) : IsToken(p[1], p[2])}
  IN IF tokens = {} THEN null
     ELSE LET p == CHOOSE p \in tokens : \A q \in tokens : p[1] <= q[1]
          IN SubSeq(text, p[1], p[2])

\* C22: extractTrackingIdFrom answers the first ORD-<alphanumeric> token of the text in
\* upper case, in whatever case it is written ('ship ord-abc123 now' gives 'ORD-ABC123'),
\* and applied to its own result it answers that result again.
C22_ExtractTrackingIdFrom ==
  res.fn = "extractTrackingIdFrom" =>
    /\ res.value = IF FirstOrdToken(req.text) = null THEN null
                   ELSE toUpperCase(FirstOrdToken(req.text))
    /\ req.text = <<"s","h","i","p"," ","o","r","d","-","a","b","c","1","2","3"," ","n","o","w">> => res.value = <<"O","R","D","-","A","B","C","1","2","3">>
    /\ res.value # null => extractTrackingIdFrom(res.value) = res.value

\* an id written in mixed case after another word, with a second id behind it
C22_Witness ==
  /\ res.fn = "extractTrackingIdFrom"
  /\ req.text = <<"s","h","i","p"," ","O","r","d","-","a","B","c","1"," ","a","n","d"," ","O","R","D","-","Z","Z","Z","9","9","9">>
  /\ res.value = <<"O","R","D","-","A","B","C","1">>


\* C23: extractPickupTime('5 pm') answers 17:00 of the current day while the clock reads
\* less than 17:00 and 17:00 of the next day once it reads 17:00:00.000 or more.
C23_FivePmTodayOrTomorrow ==
  res.fn = "extractPickupTime" /\ req.text = <<"5"," ","p","m">> =>
    res.value = IF res.date < FivePm THEN <<"date", FivePm>>
                ELSE <<"date", FivePm + DayMs>>


\* the values of action named by the interface
Actions ==
  {"created_order", "track_order", "order_not_found", "next_pickup", "no_pickups",
   "list_orders", "cancel_order", "ask_for_order_id", "update_address", "ask_for_address",
   "update_order", "delete_order", "llm_reply", "fallback"}

\* C24: every response carries a reply and an action, and the action is one of the
\* fourteen values of the interface.
C24_ReplyAndAction ==
  requests > 0 => /\ res.reply # undefined
                  /\ res.action \in Actions


\* the sequence st without its i-th document
WithoutDoc(st, i) == SubSeq(st, 1, i - 1) \o SubSeq(st, i + 1, Len(st))

\* C25: the collection changes only by create_order adding one order, by update_order,
\* update_address and cancel_order changing fields of one existing order, and by
\* delete_order removing one order; track_order, next_pickup, list_orders and general
\* requests leave every stored order as it was.
C25_StoreFrame ==
  [][LET intent == req'.intent
     IN /\ intent \in {"track_order", "next_pickup", "list_orders", "general"} => store' = store
        /\ res'.action = "created_order" =>
             Len(store') = Len(store) + 1 /\ SubSeq(store', 1, Len(store)) = store
        /\ res'.action = "delete_order" =>
             \E i \in 1..Len(store) : store' = WithoutDoc(store, i)
        /\ store' # store =>
             \/ res'.action = "created_order" /\ intent = "create_order"
             \/ res'.action = "delete_order" /\ intent = "delete_order"
             \/ /\ intent \in {"update_order", "update_address", "cancel_order"}
                /\ Len(store') = Len(store)
                /\ \E i \in 1..Len(store) :
                     /\ store'[i] # store[i]
                     /\ store'[i]._id = store[i]._id
                     /\ \A j \in (1..Len(store)) \ {i} : store'[j] = store[j]]_vars

\* an order was created next to a stored one, and the stored one was then deleted
C25_Witness ==
  /\ requests = 2
  /\ res.action = "delete_order"
  /\ Len(store) = 1
  /\ store[1].trackingId # ORD_ABC123


-----------------------------------------------------------------------------
(* Runs of update_order requests over two stored orders *)

InitUpdate == Start(UpdateStores) /\ groq = FALSE

\* POST /api/ai/reply with an update command
NextUpdate ==
  \E text \in UpdateTexts, dt \in ClockSteps, lag \in 0..MaxReadLag :
    /\ requests < MaxRequests
    /\ UpdateOrder("demo-user", text, On(text), now + dt, lag)

SpecUpdate == InitUpdate /\ [][NextUpdate]_vars


\* the stored item s names the word w, in any letter case
NamesItem(s, w) == ContainsWord(toLowerCase(s), toLowerCase(w))

\* s begins or ends with a comma, or holds two commas with nothing but blanks between
StrayCommas(s) ==
  \/ s # <<>> /\ (trim(s)[1] = "," \/ trim(s)[Len(trim(s))] = ",")
  \/ \E i, j \in 1..Len(s) :
       i < j /\ s[i] = "," /\ s[j] = "," /\ \A k \in (i + 1)..(j - 1) : s[k] \in SpaceSet

\* C27: an update_order request that names items to add and items to remove is applied as
\* one update: the stored item then names every added item and none of the removed ones
\* (whole words, in any letter case) and has no leading, trailing or doubled comma.
C27_AddAndRemoveTogether ==
  [][LET text == req'.text
         added == AddItems(text)
         removed == RemoveItems(text)
         i == FindOneByTrackingId(store, extractTrackingIdFrom(text))
     IN req'.intent = "update_order" /\ res'.status = 200 /\ i # 0
        /\ added # <<>> /\ removed # <<>> =>
          /\ \A k \in 1..Len(added) : NamesItem(store'[i].item, added[k])
          /\ \A k \in 1..Len(removed) : ~NamesItem(store'[i].item, removed[k])
          /\ ~StrayCommas(store'[i].item)]_vars


\* the time of day H[:MM][am|pm] written in a command, read from the text without its
\* tracking id; null when none is written
WrittenTime(text) ==
  LET id == extractTrackingIdFromAsWritten(text)
      k == IF id = null THEN 0 ELSE IndexOf(text, id)
      rest == IF id = null THEN text
              ELSE SubSeq(text, 1, k - 1) \o SubSeq(text, k + Len(id), Len(text))
  IN PickupTimeMatch(rest)

\* C29: update_order changes the pickupTime only when the text holds a 'pickup' token, and
\* then sets it to the time of day written in the text ('pickup 5 pm' gives 17:00),
\* whether or not the tracking id holds digits.
C29_PickupTimeAsWritten ==
  [][LET text == req'.text
         i == FindOneByTrackingId(store, extractTrackingIdFrom(text))
         w == WrittenTime(text)
     IN req'.intent = "update_order" /\ res'.status = 200 /\ i # 0 =>
          /\ store'[i].pickupTime # store[i].pickupTime => PickupToken(text) /\ w # null
          /\ PickupToken(text) /\ w # null =>
               /\ store'[i].pickupTime # null
               /\ store'[i].pickupTime[2] % DayMs = w[1] * HourMs + w[2] * MinuteMs]_vars


-----------------------------------------------------------------------------
(* Requests in flight together. aiReply is an async function: it runs to its next await,
   and while it waits for the store the event loop starts or resumes other requests.
   calls holds the requests that wait, each with the await it stands at (pc) and the
   locals it will need when it resumes. *)

InitAsync == Start({<<SeedOrder(1, ORD_ABC123, bread, created, null, DayMs)>>}) /\ groq = FALSE

\* history.push of a reply and res.json by the request at position k of calls (k = 0: a
\* request that never waited); st is the store after its last store call
Reply(k, uid, text, intent, st, body) ==
  /\ history' = [history EXCEPT ![uid] = Append(@, [role |-> "assistant", content |-> body.reply])]
  /\ calls' = IF k = 0 THEN calls ELSE SubSeq(calls, 1, k - 1) \o SubSeq(calls, k + 1, Len(calls))
  /\ store' = st
  /\ req' = [text |-> text, userId |-> uid, intent |-> intent, db |-> "up"]
  /\ res' = body
  /\ now' = now + 1
  /\ UNCHANGED <<nextId, groq, llm, nav>>

\* the request's next await: its locals are kept in calls
Await(k, pc, order, updates) ==
  /\ calls' = [calls EXCEPT ![k] = [@ EXCEPT !.pc = pc, !.order = order, !.updates = updates]]
  /\ now' = now + 1
  /\ UNCHANGED <<store, nextId, history, groq, req, llm, res, requests, nav>>

\* A request arrives (lines 196-209) and runs up to its first await: the user's message
\* is pushed, the text is classified, and update_order and delete_order either ask for
\* an id at once or wait for Order.findOne (lines 369, 457)
Begin(uid, text, on) ==
  LET intent == on.parseIntent.intent
      trackingId == on.extractTrackingIdFrom
      pushed == [history EXCEPT ![uid] = HistoryWithUser(uid, text)]
  IN /\ requests < MaxRequests
     /\ intent \in {"update_order", "delete_order"}
     /\ requests' = requests + 1
     /\ now' = now + 1
     /\ req' = [text |-> text, userId |-> uid, intent |-> intent, db |-> "up"]
     /\ UNCHANGED <<store, nextId, groq, llm, nav>>
     /\ IF trackingId = null
        THEN /\ res' = Json("ask_for_order_id",
                            IF intent = "update_order"
                            THEN <<"P","l","e","a","s","e"," ","p","r","o","v","i","d","e"," ","a"," ","v","a","l","i","d"," ","o","r","d","e","r"," ","I","D"," ","(","e",".","g",".",","," ","O","R","D","-","A","B","C","1","2","3",")"," ","t","o"," ","u","p","d","a","t","e",".">>
                            ELSE <<"P","l","e","a","s","e"," ","p","r","o","v","i","d","e"," ","t","h","e"," ","o","r","d","e","r"," ","I","D"," ","t","o"," ","d","e","l","e","t","e"," ","(","e",".","g",".",","," ","'","d","e","l","e","t","e"," ","o","r","d","e","r"," ","O","R","D","-","A","B","C","1","2","3","'",")",".">>,
                            noOrder, <<>>, null)
             /\ history' = [pushed EXCEPT ![uid] = Append(@, [role |-> "assistant", content |-> res'.reply])]
             /\ calls' = calls
        ELSE /\ history' = pushed
             /\ calls' = Append(calls, [uid |-> uid, text |-> text, intent |-> intent,
                                        trackingId |-> trackingId, pc |-> "findOne",
                                        order |-> noOrder, updates |-> null])
             /\ res' = res

\* Order.findOne({ trackingId }) resolves and the request runs to its next await or to
\* its reply (lines 369-428 and 457-462)
FoundOne(k, on) ==
  LET c == calls[k]
      i == FindOneByTrackingId(store, c.trackingId)
      updates == OrderUpdates(on, store[i], now, now)
  IN /\ c.pc = "findOne"
     /\ IF i = 0
        THEN /\ Reply(k, c.uid, c.text, c.intent, store,
                      Json("order_not_found",
                           (IF c.intent = "update_order" THEN <<"S","o","r","r","y",","," ","I"," ","c","o","u","l","d","n","'","t"," ","f","i","n","d"," ","o","r","d","e","r"," ">>
                            ELSE <<"I"," ","c","o","u","l","d","n","'","t"," ","f","i","n","d"," ","o","r","d","e","r"," ">>) \o c.trackingId \o <<".">>,
                           noOrder, <<>>, c.trackingId))
             /\ UNCHANGED requests
        ELSE IF c.intent = "delete_order"
        THEN Await(k, "findByIdAndDelete", store[i], null)
        ELSE IF updates.status = null /\ updates.pickupTime = null
                /\ updates.assignedTo = null /\ updates.item = null
        THEN /\ Reply(k, c.uid, c.text, c.intent, store,
                      Json("update_order",
                           <<"W","h","a","t"," ","w","o","u","l","d"," ","y","o","u"," ","l","i","k","e"," ","t","o"," ","u","p","d","a","t","e","?"," ","(","s","t","a","t","u","s",","," ","p","i","c","k","u","p"," ","t","i","m","e",","," ","a","s","s","i","g","n","e","e",","," ","i","t","e","m","s",")">>,
                           store[i], <<>>, null))
             /\ UNCHANGED requests
        ELSE Await(k, "findByIdAndUpdate", store[i], updates)

\* Order.findByIdAndUpdate(order._id, updates, { new: true }) resolves, to the updated
\* document or to null when no document has the id any more, and the request replies
\* (lines 430-444)
Updated(k) ==
  LET c == calls[k]
      hits == {j \in 1..Len(store) : store[j]._id = c.order._id}
      j == SetMin(hits)
      updated == IF hits = {} THEN noOrder ELSE ApplyUpdates(store[j], c.updates, now + 1)
  IN /\ c.pc = "findByIdAndUpdate"
     /\ Reply(k, c.uid, c.text, c.intent,
              IF hits = {} THEN store ELSE [store EXCEPT ![j] = updated],
              Json("update_order", UpdatedReply(c.trackingId, c.order, updated),
                   updated, <<>>, null))
     /\ UNCHANGED requests

\* Order.findByIdAndDelete(order._id) resolves and the request replies (lines 464-467)
Deleted(k) ==
  LET c == calls[k]
  IN /\ c.pc = "findByIdAndDelete"
     /\ Reply(k, c.uid, c.text, c.intent, DeleteById(store, c.order._id),
              Json("delete_order", <<"O","r","d","e","r"," ">> \o c.trackingId \o <<" ","h","a","s"," ","b","e","e","n"," ","d","e","l","e","t","e","d",".">>,
                   [trackingId |-> c.trackingId], <<>>, null))
     /\ UNCHANGED requests

NextAsync ==
  \/ \E text \in AsyncTexts : Begin("demo-user", text, On(text))
  \/ \E k \in 1..Len(calls) : FoundOne(k, On(calls[k].text))
  \/ \E k \in 1..Len(calls) : Updated(k)
  \/ \E k \in 1..Len(calls) : Deleted(k)

SpecAsync == InitAsync /\ [][NextAsync]_vars


\* C26: a command is handled to completion before the next one starts, so in a user's
\* context every utterance is followed directly by its reply, never by a message of
\* another request, also while a request waits for the store.
C26_HandledToCompletion ==
  \A u \in ChatUsers :
    \A p \in 1..(Len(history[u]) - 1) :
      history[u][p].role = "user" => history[u][p + 1].role = "assistant"

\* the user u has sent the text
Sent(u, text) ==
  \E p \in 1..Len(history[u]) : history[u][p] = [role |-> "user", content |-> text]

\* C28: two update_order requests that run together on the same order and add juice and
\* milk lose no update: once both have completed, the order's item names both.
C28_NoLostUpdate ==
  LET i == FindOneByTrackingId(store, ORD_ABC123)
  IN /\ calls = <<>>
     /\ Sent("demo-user", <<"u","p","d","a","t","e"," ","O","R","D","-","A","B","C","1","2","3"," ","a","d","d"," ","j","u","i","c","e">>)
     /\ Sent("demo-user", <<"u","p","d","a","t","e"," ","O","R","D","-","A","B","C","1","2","3"," ","a","d","d"," ","m","i","l","k">>)
     /\ i # 0
     => NamesItem(store[i].item, <<"j","u","i","c","e">>) /\ NamesItem(store[i].item, <<"m","i","l","k">>)

\* C30: update_order reports 'Order T updated' only when its write was applied to an
\* order of the store: the response then carries the order as it is stored, also when a
\* delete_order of T completes between the lookup and the write.
C30_ConfirmsAppliedWrite ==
  res.action = "update_order" /\ startsWith(res.reply, <<"O","r","d","e","r"," ">>) =>
    /\ res.order # noOrder
    /\ \E i \in 1..Len(store) : store[i] = res.order


-----------------------------------------------------------------------------
(* update_order without a change, the track rule, extractStatus, model calls, statuses *)

\* the prompt of update_order when the updates object is empty
ClarificationPrompt == <<"W","h","a","t"," ","w","o","u","l","d"," ","y","o","u"," ","l","i","k","e"," ","t","o"," ","u","p","d","a","t","e","?"," ","(","s","t","a","t","u","s",","," ","p","i","c","k","u","p"," ","t","i","m","e",","," ","a","s","s","i","g","n","e","e",","," ","i","t","e","m","s",")">>

\* update commands with and without a change to make
PromptTexts ==
  {<<"u","p","d","a","t","e"," ","O","R","D","-","A","B","C","D","E","F"," ","p","i","c","k","u","p">>, <<"u","p","d","a","t","e"," ","O","R","D","-","A","B","C","1","2","3">>, <<"P","l","e","a","s","e"," ","u","p","d","a","t","e"," ","O","R","D","-","A","B","C","D","E","F"," ","t","o","d","a","y">>,
   <<"u","p","d","a","t","e"," ","O","R","D","-","A","B","C","1","2","3"," ","a","d","d"," ","j","u","i","c","e">>, <<"u","p","d","a","t","e"," ","O","R","D","-","A","B","C","1","2","3"," ","r","e","m","o","v","e"," ","m","i","l","k">>,
   <<"u","p","d","a","t","e"," ","O","R","D","-","A","B","C","D","E","F"," ","p","i","c","k","u","p"," ","5"," ","p","m">>, <<"u","p","d","a","t","e"," ","o","r","d","e","r"," ","p","i","c","k","u","p"," ","5"," ","p","m">>}

NextPrompt ==
  \E text \in PromptTexts, dt \in ClockSteps, lag \in 0..MaxReadLag :
    /\ requests < MaxRequests
    /\ UpdateOrder("demo-user", text, On(text), now + dt, lag)

SpecPrompt == InitUpdate /\ [][NextPrompt]_vars

\* C31: an update_order command that names a stored order and in which no status word,
\* pickup time, assignee, add list or remove list is detected is answered with the
\* clarification prompt, action update_order and the order as stored, and writes nothing.
C31_NothingToUpdate ==
  [][LET text == req'.text
         i == FindOneByTrackingId(store, extractTrackingIdFrom(text))
     IN /\ req'.intent = "update_order"
        /\ i # 0
        /\ extractStatus(text) = null
        /\ ~PickupToken(text) \/ PickupTimeMatch(text) = null
        /\ ~Truthy(extractAssignee(text))
        /\ AddItems(text) = <<>>
        /\ RemoveItems(text) = <<>>
        => /\ res'.status = 200
           /\ res'.action = "update_order"
           /\ res'.reply = ClarificationPrompt
           /\ res'.order = store[i]
           /\ store' = store]_vars

\* a command with a 'pickup' token and no time was answered with the prompt
C31_Witness ==
  /\ req.text = <<"u","p","d","a","t","e"," ","O","R","D","-","A","B","C","D","E","F"," ","p","i","c","k","u","p">>
  /\ res.reply = ClarificationPrompt
  /\ res.order = store[2]
  /\ store[2].updatedAt < 0


\* the id written directly behind the phrase at its first occurrence in t: the run of
\* letters, digits and hyphens that follows it; null when the phrase does not occur or
\* nothing of that kind follows
IdAfter(t, phrase) ==
  LET i == IndexOf(t, phrase)
      k == i + Len(phrase)
  IN IF i = 0 \/ RunEnd(t, k, IdCharSet) < k THEN null
     ELSE SubSeq(t, k, RunEnd(t, k, IdCharSet))

\* C32: the classifier answers track_order only for a text that holds 'track order <id>'
\* or 'where is order <id>', and the trackingId is the id that follows the phrase; 'track
\* order' alone and 'track my parcel' are not track_order.
C32_TrackNeedsId ==
  res.fn = "parseIntent" /\ res.value.intent = "track_order" =>
    LET t == toLowerCase(req.text)
        tracked == IdAfter(t, <<"t","r","a","c","k"," ","o","r","d","e","r"," ">>)
        asked == IdAfter(t, <<"w","h","e","r","e"," ","i","s"," ","o","r","d","e","r"," ">>)
    IN /\ tracked # null \/ asked # null
       /\ res.value.trackingId = IF tracked # null THEN tracked ELSE asked


StatusWords == {<<"d","e","l","i","v","e","r","e","d">>, <<"p","r","o","c","e","s","s","i","n","g">>, <<"s","h","i","p","p","e","d">>}

\* the positions at which w stands as a whole word in s
WordAt(s, w) ==
  {i \in 1..Len(s) : StartsAt(s, i, w) /\ WordBoundary(s, i) /\ WordBoundary(s, i + Len(w))}

\* C33: extractStatus answers the status word that stands first in the text (delivered,
\* processing or shipped as a whole word, in any letter case), and null when none stands
\* in it.
C33_FirstStatusWord ==
  res.fn = "extractStatus" =>
    LET lower == toLowerCase(req.text)
        found == {w \in StatusWords : WordAt(lower, w) # {}}
    IN res.value = IF found = {} THEN null
                   ELSE CHOOSE w \in found :
                          \A v \in found : SetMin(WordAt(lower, w)) <= SetMin(WordAt(lower, v))


\* the outcomes a call of the extraction model and a call of the chat model can have
ExtractionKinds == {"throws", "unparsable", "json"}

ChatKinds == {"throws", "text"}

\* C34: a request makes at most one model call and never a second one after a failure:
\* create_order makes one extraction call, a general request one chat call, every other
\* request none, and a call that fails is followed by the answer for the failure (the
\* deterministic fallback fields, or the internal error) and not by another call.
C34_OneModelCall ==
  requests > 0 =>
    /\ req.intent \notin {"create_order", "general"} => llm = NoCall
    /\ ~groq => llm = NoCall
    /\ groq /\ req.intent = "create_order" =>
         /\ llm.kind \in ExtractionKinds
         /\ "messages" \notin DOMAIN llm
         /\ llm.kind \in {"throws", "unparsable"} =>
              /\ res.action = "created_order"
              /\ res.order.item = req.text
              /\ res.order.qty = Num(1)
    /\ groq /\ req.intent = "general" =>
         /\ llm.kind \in ChatKinds
         /\ "messages" \in DOMAIN llm
         /\ llm.kind = "throws" => res.status = 500 /\ res.action # "llm_reply"

\* the chat call of a general request threw and the request ended there
C34_Witness ==
  /\ groq
  /\ req.intent = "general"
  /\ llm.kind = "throws"
  /\ res.status = 500
  /\ requests = 2


-----------------------------------------------------------------------------
(* Runs of commands that write statuses, over the two stored orders *)

InitStatus == Start(UpdateStores)

NextStatus ==
  \/ \E text \in StatusCommands, out \in ExtractOutcomes, rnd \in RandomDraws :
       requests < MaxRequests /\ CreateOrder("demo-user", text, On(text), now + 1, out, rnd)
  \/ \E text \in StatusCommands :
       requests < MaxRequests /\ NextPickup("demo-user", text, On(text), now + 1)
  \/ \E text \in StatusCommands :
       requests < MaxRequests /\ CancelOrder("demo-user", text, On(text), now + 1)
  \/ \E text \in StatusCommands :
       requests < MaxRequests /\ UpdateOrder("demo-user", text, On(text), now + 1, 0)

SpecStatus == InitStatus /\ [][NextStatus]_vars

\* the statuses the interpreter writes
WrittenStatuses == {created, cancelled, <<"p","r","o","c","e","s","s","i","n","g">>, <<"s","h","i","p","p","e","d">>, <<"d","e","l","i","v","e","r","e","d">>}

\* C35: interpreter commands leave every stored order with one of the statuses created,
\* processing, shipped, delivered, cancelled; assigning an order through update_order
\* leaves its status as it was; and next_pickup answers only with an order whose status
\* is created.
C35_StatusesWritten ==
  /\ [](\A i \in 1..Len(store) : store[i].status \in WrittenStatuses)
  /\ [](res.action = "next_pickup" => res.order.status = created)
  /\ [][req'.intent = "update_order" /\ extractStatus(req'.text) = null =>
          /\ Len(store') = Len(store)
          /\ \A i \in 1..Len(store) : store'[i].status = store[i].status]_vars

\* an order was given an assignee and a next_pickup request then answered with it
C35_Witness ==
  /\ res.action = "next_pickup"
  /\ res.order.trackingId = ORD_ABCDEF
  /\ res.order.assignedTo = <<"R","a","v","i">>
  /\ res.order.status = created

-----------------------------------------------------------------------------
(* NavigationService: navigation sessions, geocoding and weather checks *)

\* the places a position update may report, in metres along one road
Positions == {0, 150}

\* startNavigation calls of one run
MaxStarts == 2

\* asynchronous calls of the service that may be suspended at the same time
MaxPending == 2

\* geocoding requests that may come back without a result
MaxFaulty == 1

\* calculateDistance(point1, point2), in metres
calculateDistance(point1, point2) ==
  IF point1.position < point2.position THEN point2.position - point1.position
  ELSE point1.position - point2.position

\* the mock route of getDirections
mockRoute(destination) ==
  [steps |-> <<<<"H","e","a","d"," ","n","o","r","t","h"," ","o","n"," ","M","a","i","n"," ","S","t","r","e","e","t">>, <<"T","u","r","n"," ","r","i","g","h","t"," ","o","n","t","o"," ","H","i","g","h","w","a","y"," ","1","0","1">>,
               <<"C","o","n","t","i","n","u","e"," ","s","t","r","a","i","g","h","t"," ","f","o","r"," ","3","k","m">>, <<"T","u","r","n"," ","l","e","f","t"," ","o","n","t","o"," ","D","e","s","t","i","n","a","t","i","o","n"," ","R","o","a","d">>,
               <<"A","r","r","i","v","e"," ","a","t"," ","d","e","s","t","i","n","a","t","i","o","n">>>>,
   destination |-> destination]

\* the route getRealDirections builds from the answer of the directions API
routeData(destination) ==
  [steps |-> <<<<"H","e","a","d"," ","e","a","s","t"," ","o","n"," ","M","G"," ","R","o","a","d">>, <<"A","r","r","i","v","e"," ","a","t"," ","y","o","u","r"," ","d","e","s","t","i","n","a","t","i","o","n">>>>, destination |-> destination]

\* the waypoint lists of n steps that start next to the position from: each waypoint
\* lies a random offset away from the one before it
RECURSIVE WaypointLists(_, _)
WaypointLists(from, n) ==
  IF n = 0 THEN {<<>>}
  ELSE UNION {{<<[position |-> p]>> \o w : w \in WaypointLists(p, n - 1)} :
                p \in {q \in Positions : q - from \in {-150, 150}}}

\* generateStepWaypoints(route): the lists the random offsets may give
generateStepWaypoints(n, route) ==
  IF n.currentLocation = noLocation \/ Len(route.steps) = 0 THEN {<<>>}
  ELSE WaypointLists(n.currentLocation.position, Len(route.steps))

\* stopLocationWatch()
stopLocationWatch(n) == IF n.watchId # null THEN [n EXCEPT !.watchId = null] ELSE n

\* stopNavigation()
stopNavigation(n) ==
  stopLocationWatch([n EXCEPT !.isNavigating = FALSE, !.currentRoute = noRoute,
                              !.currentStepIndex = 0, !.stepWaypoints = <<>>,
                              !.autoAdvanceCallback = null])

\* this.autoAdvanceCallback(text)
Announce(n, text) == [n EXCEPT !.announced = Append(@, [text |-> text, session |-> n.started])]

\* advanceToNextStep()
advanceToNextStep(n) ==
  IF n.currentRoute = noRoute \/ n.autoAdvanceCallback = null THEN n
  ELSE LET m == [n EXCEPT !.currentStepIndex = @ + 1]
       IN IF m.currentStepIndex < Len(m.currentRoute.steps)
          THEN Announce(m, m.currentRoute.steps[m.currentStepIndex + 1])
          ELSE stopNavigation(Announce(m, <<"D","e","s","t","i","n","a","t","i","o","n"," ","r","e","a","c","h","e","d","!">>))

\* the waypoint lists checkForAutoAdvance may store in the state n
DrawnWaypoints(n) ==
  IF n.isNavigating /\ n.currentRoute # noRoute /\ n.autoAdvanceCallback # null
       /\ Len(n.stepWaypoints) = 0
  THEN generateStepWaypoints(n, n.currentRoute) ELSE {<<>>}

\* checkForAutoAdvance(currentLocation), waypoints being what generateStepWaypoints returns
checkForAutoAdvance(n, currentLocation, waypoints) ==
  IF ~n.isNavigating \/ n.currentRoute = noRoute \/ n.autoAdvanceCallback = null THEN n
  ELSE LET m == IF Len(n.stepWaypoints) = 0 THEN [n EXCEPT !.stepWaypoints = waypoints] ELSE n
       IN IF m.currentStepIndex < Len(m.stepWaypoints)
            /\ calculateDistance(currentLocation, m.stepWaypoints[m.currentStepIndex + 1]) < 100
          THEN advanceToNextStep(m) ELSE m

\* what the variables of aiReply keep while the navigation service runs
NavFrame == UNCHANGED <<store, nextId, history, groq, req, llm, res, requests>>

\* a service that has just been constructed
InitNav == Start({<<>>}) /\ groq = FALSE

\* the calls still suspended when the call k has returned
Returned(k) == SubSeq(calls, 1, k - 1) \o SubSeq(calls, k + 1, Len(calls))

\* the wait of the rate limit of forwardGeocode and reverseGeocode at the time t
GeocodeDelay(n, t) == IF t - n.lastGeocodeTime < 1000 THEN 1000 - (t - n.lastGeocodeTime) ELSE 0

\* fetch(url) of the geocoder
GeocodeRequest(n, api, key) == [n EXCEPT !.lookups = Append(@, [api |-> api, key |-> key, at |-> now])]


\* a call of the service suspended at an await: the method that was called, the await it
\* is at, the geocoding API and cache key of its lookup, and its arguments
Suspended(fn, api, key, position, destination) ==
  [fn |-> fn, pc |-> "fetch", api |-> api, key |-> key, position |-> position,
   destination |-> destination, due |-> 0]

\* forwardGeocode and reverseGeocode from the rate limit to the fetch, for a key that is
\* not cached: the call waits for the rest of the second, or sends its request at once
Lookup(n, call) ==
  LET delay == GeocodeDelay(n, now)
  IN IF delay > 0
     THEN /\ nav' = n
          /\ calls' = Append(calls, [call EXCEPT !.pc = "setTimeout", !.due = now + delay])
     ELSE /\ nav' = GeocodeRequest(n, call.api, call.key)
          /\ calls' = Append(calls, call)

\* the Location reverseGeocode returns for the answer out of the geocoder
Geocoded(p, out) ==
  [position |-> p,
   placeName |-> CASE out = "result" -> <<"M","G"," ","R","o","a","d">> [] out = "empty" -> null
                   [] OTHER -> <<"C","u","r","r","e","n","t"," ","L","o","c","a","t","i","o","n">>]

\* the watchPosition callback from the assignment of currentLocation to its end
Located(n, location) ==
  \E waypoints \in DrawnWaypoints([n EXCEPT !.currentLocation = location]) :
    nav' = checkForAutoAdvance([n EXCEPT !.currentLocation = location], location, waypoints)

\* getCurrentLocation(), the browser reporting the position p
GetCurrentLocation(p) ==
  /\ IF p \in nav.geocodeCache
     THEN /\ nav' = [nav EXCEPT !.currentLocation = Geocoded(p, "result")]
          /\ calls' = calls
     ELSE Lookup(nav, Suspended("getCurrentLocation", "reverse", p, p, null))
  /\ now' = now
  /\ NavFrame

\* startLocationWatch(callback, autoAdvanceCallback)
StartLocationWatch(autoAdvanceCallback) ==
  /\ nav' = [nav EXCEPT !.autoAdvanceCallback = IF autoAdvanceCallback = undefined THEN null
                                                  ELSE autoAdvanceCallback,
                        !.watchId = Num(1)]
  /\ UNCHANGED <<calls, now>>
  /\ NavFrame

\* the callback of watchPosition, the browser reporting the position p and Math.random()
\* being below 0.1 or not
WatchPosition(p, random) ==
  LET location == [position |-> p]
      shouldGeocode == \/ nav.currentLocation = noLocation
                       \/ random
                       \/ calculateDistance(nav.currentLocation, location) > 100
  IN /\ nav.watchId # null
     /\ IF shouldGeocode
        THEN IF p \in nav.geocodeCache
             THEN Located(nav, Geocoded(p, "result")) /\ calls' = calls
             ELSE Lookup(nav, Suspended("watchPosition", "reverse", p, p, null))
        ELSE /\ Located(nav, [position |-> p,
                              placeName |-> OrElse(nav.currentLocation.placeName, <<"C","u","r","r","e","n","t"," ","L","o","c","a","t","i","o","n">>)])
             /\ calls' = calls
     /\ now' = now
     /\ NavFrame

\* forwardGeocode(address), called on its own
ForwardGeocode(address) ==
  /\ trim(toLowerCase(address)) \notin nav.forwardGeocodeCache
  /\ Lookup(nav, Suspended("forwardGeocode", "search", trim(toLowerCase(address)), 0, address))
  /\ now' = now
  /\ NavFrame

\* startNavigation(destination) up to the first await of getRealDirections
StartNavigation(destination) ==
  LET n == [nav EXCEPT !.isNavigating = TRUE, !.currentStepIndex = 0, !.started = @ + 1]
      cacheKey == trim(toLowerCase(destination))
  IN /\ nav.currentLocation # noLocation
     /\ nav.started < MaxStarts
     /\ IF cacheKey \in nav.forwardGeocodeCache
        THEN /\ nav' = n
             /\ calls' = Append(calls, [Suspended("startNavigation", "search", cacheKey, 0, destination)
                                          EXCEPT !.pc = "directions"])
        ELSE Lookup(n, Suspended("startNavigation", "search", cacheKey, 0, destination))
     /\ now' = now
     /\ NavFrame

\* stopNavigation()
StopNavigation ==
  /\ nav' = stopNavigation(nav)
  /\ UNCHANGED <<calls, now>>
  /\ NavFrame

\* the timer of the rate limit of the call k fires, and the call sends its request
TimerFires(k) ==
  /\ calls[k].pc = "setTimeout"
  /\ now >= calls[k].due
  /\ nav' = GeocodeRequest(nav, calls[k].api, calls[k].key)
  /\ calls' = [calls EXCEPT ![k].pc = "fetch"]
  /\ now' = now
  /\ NavFrame

\* time passes until a timer of the rate limit is due
Elapse ==
  /\ \E k \in 1..Len(calls) : calls[k].pc = "setTimeout" /\ now < calls[k].due /\ now' = calls[k].due
  /\ UNCHANGED <<calls, nav>>
  /\ NavFrame

\* The fetch of the geocoding call k settles: with a result, with an empty answer, with a
\* status that is not ok, or by rejecting. forwardGeocode and reverseGeocode then run to
\* their return, and the caller goes on to its next await or to its end
GeocodeReturns(k, out) ==
  LET call == calls[k]
      timed == IF out = "error" THEN nav ELSE [nav EXCEPT !.lastGeocodeTime = now]
      n == IF out # "result" THEN timed
           ELSE IF call.api = "reverse"
                THEN [timed EXCEPT !.geocodeCache = @ \cup {call.key}]
                ELSE [timed EXCEPT !.forwardGeocodeCache = @ \cup {call.key}]
  IN /\ call.pc = "fetch"
     /\ CASE call.fn = "watchPosition" ->
               Located(n, Geocoded(call.position, out)) /\ calls' = Returned(k)
          [] call.fn = "getCurrentLocation" ->
               /\ nav' = [n EXCEPT !.currentLocation = Geocoded(call.position, out)]
               /\ calls' = Returned(k)
          [] call.fn = "startNavigation" ->
               nav' = n /\ calls' = [calls EXCEPT ![k].pc = "directions"]
          [] OTHER -> nav' = n /\ calls' = Returned(k)
     /\ now' = now
     /\ NavFrame

\* The directions request of the startNavigation call k settles: getRealDirections stores
\* the route of the answer, or falls back to getDirections, which stores the mock route
DirectionsReturn(k, out) ==
  /\ calls[k].pc = "directions"
  /\ nav' = [nav EXCEPT !.currentRoute = IF out = "route" THEN routeData(calls[k].destination)
                                         ELSE mockRoute(calls[k].destination)]
  /\ calls' = Returned(k)
  /\ now' = now
  /\ NavFrame

Destinations == {<<"A","i","r","p","o","r","t">>}

GeocodeOutcomes == {"result", "empty", "failed", "error"}

NextNav ==
  \/ \E p \in Positions : calls = <<>> /\ nav.currentLocation = noLocation /\ GetCurrentLocation(p)
  \/ \E autoAdvanceCallback \in {<<"a","n","n","o","u","n","c","e">>, undefined} : StartLocationWatch(autoAdvanceCallback)
  \/ \E destination \in Destinations : calls = <<>> /\ StartNavigation(destination)
  \/ StopNavigation
  \/ \E p \in Positions, random \in BOOLEAN : calls = <<>> /\ WatchPosition(p, random)
  \/ \E k \in 1..Len(calls) : TimerFires(k)
  \/ Elapse
  \/ \E k \in 1..Len(calls), out \in {"result", "error"} :
       (out = "result" \/ Len(nav.lookups) <= MaxFaulty) /\ GeocodeReturns(k, out)
  \/ \E k \in 1..Len(calls), out \in {"route", "failed"} : DirectionsReturn(k, out)

SpecNav == InitNav /\ [][NextNav]_vars


\* C36: once stopNavigation() has returned, isNavigating stays false and currentRoute
\* stays null until the next startNavigation call, also when the directions request of
\* an earlier startNavigation is still pending at the stop
C36_StoppedUntilNextStart ==
  [][(/\ nav.started > 0
      /\ ~nav.isNavigating
      /\ nav.currentRoute = noRoute
      /\ nav'.started = nav.started) => (~nav'.isNavigating /\ nav'.currentRoute = noRoute)]_vars


\* the position comes within 100 m of each step waypoint in turn: a position update at
\* the waypoint of the current step, or anywhere while no waypoint is due
InTurn ==
  \E p \in Positions, random \in BOOLEAN :
    /\ calls = <<>>
    /\ nav.currentStepIndex < Len(nav.stepWaypoints)
         => p = nav.stepWaypoints[nav.currentStepIndex + 1].position
    /\ WatchPosition(p, random)

\* SpecNav with the scheduling of the browser: a timer that is due fires, a request that
\* was sent settles, and the position updates of a watch keep coming
SpecNavLive ==
  /\ SpecNav
  /\ SF_vars(InTurn)
  /\ WF_vars(Elapse)
  /\ WF_vars(\E k \in 1..Len(calls) : TimerFires(k))
  /\ WF_vars(\E k \in 1..Len(calls) : GeocodeReturns(k, "result"))
  /\ WF_vars(\E k \in 1..Len(calls), out \in {"route", "failed"} : DirectionsReturn(k, out))

DestinationReached == <<"D","e","s","t","i","n","a","t","i","o","n"," ","r","e","a","c","h","e","d","!">>

\* the service as stopNavigation leaves it
FullyReset(n) ==
  /\ ~n.isNavigating
  /\ n.currentRoute = noRoute
  /\ n.currentStepIndex = 0
  /\ n.stepWaypoints = <<>>
  /\ n.autoAdvanceCallback = null
  /\ n.watchId = null

\* C37 (the advance): each advance raises currentStepIndex by one and announces the
\* instruction of that step, and when the index reaches the number of route steps the
\* callback receives 'Destination reached!' and the service is fully reset
C37_AdvanceByOne ==
  [][nav'.announced # nav.announced =>
       /\ Len(nav'.announced) = Len(nav.announced) + 1
       /\ LET index == nav.currentStepIndex + 1
              text == nav'.announced[Len(nav'.announced)].text
          IN IF index < Len(nav.currentRoute.steps)
             THEN nav'.currentStepIndex = index /\ text = nav.currentRoute.steps[index + 1]
             ELSE text = DestinationReached /\ FullyReset(nav')]_vars

\* C37 (at most once): 'Destination reached!' is delivered at most once per session
C37_ReachedAtMostOnce ==
  \A i, j \in 1..Len(nav.announced) :
    (/\ nav.announced[i].text = DestinationReached
     /\ nav.announced[j] = nav.announced[i]) => i = j

\* C37 (eventually): while a session is under way with the watch and the callback in
\* place and the position comes to each step waypoint in turn, 'Destination reached!'
\* is eventually delivered, which ends the session, unless the session is stopped first
C37_EventuallyReached ==
  (nav.isNavigating /\ nav.autoAdvanceCallback # null /\ nav.watchId # null)
    ~> (~nav.isNavigating \/ nav.autoAdvanceCallback = null \/ nav.watchId = null)

\* C37: the auto-advance announces each step, delivers 'Destination reached!' once per
\* navigation session and resets the service, and delivers it eventually when the
\* position comes within 100 m of each step waypoint in turn, also in a session started
\* by a second startNavigation without a stopNavigation between
C37_DestinationReached == C37_AdvanceByOne /\ []C37_ReachedAtMostOnce /\ C37_EventuallyReached


-----------------------------------------------------------------------------
(* Geocoding and weather checks against the clock *)

\* milliseconds the clock may run past StartTime
MaxClock == 1000

\* geocoding requests of one run
MaxLookups == 3

\* d milliseconds pass
Tick(d) ==
  /\ now' = now + d
  /\ UNCHANGED <<calls, nav>>
  /\ NavFrame

Addresses == {<<"A","i","r","p","o","r","t">>, <<" ","A","I","R","P","O","R","T"," ">>}

\* a further geocoding call may begin
MayLookup == Len(calls) < MaxPending /\ Len(calls) + Len(nav.lookups) < MaxLookups

NextGeocode ==
  \/ \E p \in Positions : MayLookup /\ GetCurrentLocation(p)
  \/ \E address \in Addresses : MayLookup /\ ForwardGeocode(address)
  \/ StartLocationWatch(undefined)
  \/ \E p \in Positions, random \in BOOLEAN : MayLookup /\ WatchPosition(p, random)
  \/ \E k \in 1..Len(calls) : TimerFires(k)
  \/ \E k \in 1..Len(calls), out \in GeocodeOutcomes :
       (out = "result" \/ Len(nav.lookups) <= MaxFaulty) /\ GeocodeReturns(k, out)
  \/ \E d \in {500} : now + d <= StartTime + MaxClock /\ Tick(d)

SpecGeocode == InitNav /\ [][NextGeocode]_vars

\* the cache of the geocoding API api holds the key
Cached(n, api, key) ==
  IF api = "reverse" THEN key \in n.geocodeCache ELSE key \in n.forwardGeocodeCache

\* C38: any two requests sent to the geocoding API by forwardGeocode or reverseGeocode
\* are at least 1 second apart, also when several geocoding calls are in progress
\* together, and a lookup whose key is already cached sends no request
C38_GeocodeRateLimit ==
  /\ [](\A i, j \in 1..Len(nav.lookups) :
          i < j => nav.lookups[j].at - nav.lookups[i].at >= 1000)
  /\ [][Len(calls') > Len(calls) =>
          ~Cached(nav, calls'[Len(calls')].api, calls'[Len(calls')].key)]_vars


\* the places a weather check may be asked about: the first two round to the same key
WeatherPositions == {0, 150, 2000}

\* location.latitude.toFixed(2) and location.longitude.toFixed(2): the position rounded
\* to a hundredth of a degree, which is about a kilometre
WeatherKey(p) == (p + 500) \div 1000

\* the weather data the API or getMockWeather may give
WeatherData ==
  {[main |-> "Clear", description |-> <<"c","l","e","a","r"," ","s","k","y">>, temp |-> 28, humidity |-> 45],
   [main |-> "Rain", description |-> <<"l","i","g","h","t"," ","r","a","i","n">>, temp |-> 22, humidity |-> 85]}

\* formatWeatherAlert(weatherData), the texts without their leading emoji
formatWeatherAlert(weatherData) ==
  CASE weatherData.main = "Thunderstorm" ->
         <<"S","e","v","e","r","e"," ","w","e","a","t","h","e","r"," ","a","l","e","r","t",":"," ">> \o weatherData.description \o <<"."," ","C","o","n","s","i","d","e","r"," ","s","t","o","p","p","i","n","g"," ","n","a","v","i","g","a","t","i","o","n",".">>
    [] weatherData.main = "Rain" ->
         <<"R","a","i","n"," ","d","e","t","e","c","t","e","d",":"," ">> \o weatherData.description \o <<"."," ","D","r","i","v","e"," ","s","l","o","w","l","y"," ","a","n","d"," ","r","e","d","u","c","e"," ","s","p","e","e","d",".">>
    [] weatherData.main = "Snow" ->
         <<"S","n","o","w"," ","c","o","n","d","i","t","i","o","n","s",":"," ">> \o weatherData.description \o <<"."," ","R","o","a","d"," ","m","a","y"," ","b","e"," ","s","l","i","p","p","e","r","y",".">>
    [] weatherData.main \in {"Mist", "Fog"} ->
         <<"L","o","w"," ","v","i","s","i","b","i","l","i","t","y",":"," ">> \o weatherData.description \o <<"."," ","T","u","r","n"," ","o","n"," ","h","e","a","d","l","i","g","h","t","s"," ","a","n","d"," ","m","a","i","n","t","a","i","n"," ","d","i","s","t","a","n","c","e",".">>
    [] weatherData.main = "Clear" /\ weatherData.temp > 35 -> <<"H","o","t"," ","w","e","a","t","h","e","r">>
    [] weatherData.humidity > 80 -> <<"H","i","g","h"," ","h","u","m","i","d","i","t","y">>
    [] OTHER -> null

\* the entries of weatherCache for the key that are younger than 10 minutes at the time t
FreshWeather(n, key, t) == {e \in n.weatherCache : e.key = key /\ t - e.timestamp < 600000}

\* this.weatherCache.set(cacheKey, { weather, timestamp })
WeatherCached(n, key, weather, timestamp) ==
  [n EXCEPT !.weatherCache = {e \in @ : e.key # key}
                               \cup {[key |-> key, weather |-> weather, timestamp |-> timestamp]}]

\* what a call of checkWeatherAtLocation for the key has returned, or that it is suspended
WeatherAnswer(key, value) == [fn |-> "checkWeatherAtLocation", key |-> key, value |-> value]

\* checkWeatherAtLocation(location) up to its return or its await
CheckWeatherAtLocation(p) ==
  LET cacheKey == WeatherKey(p)
  IN /\ requests' = requests + 1
     /\ IF FreshWeather(nav, cacheKey, now) # {}
        THEN /\ res' = WeatherAnswer(cacheKey,
                         formatWeatherAlert((CHOOSE e \in FreshWeather(nav, cacheKey, now) : TRUE).weather))
             /\ UNCHANGED <<nav, calls>>
        ELSE IF now - nav.lastWeatherCheck < 30000
             THEN res' = WeatherAnswer(cacheKey, null) /\ UNCHANGED <<nav, calls>>
             ELSE /\ res' = WeatherAnswer(cacheKey, <<"pending">>)
                  /\ nav' = [nav EXCEPT !.weatherLookups = Append(@, [key |-> cacheKey, at |-> now])]
                  /\ calls' = Append(calls, [fn |-> "checkWeatherAtLocation", pc |-> "fetch",
                                             key |-> cacheKey, now |-> now])
     /\ UNCHANGED <<store, nextId, history, groq, now, req, llm>>

\* The fetch of the weather call k settles: with data, with a status that is not ok, or
\* by rejecting; weather being the data of the answer or what getMockWeather draws. The
\* call runs to its return
WeatherReturns(k, out, weather) ==
  LET call == calls[k]
  IN /\ call.pc = "fetch"
     /\ call.fn = "checkWeatherAtLocation"
     /\ IF out = "error"
        THEN nav' = nav
        ELSE nav' = WeatherCached([nav EXCEPT !.lastWeatherCheck = call.now], call.key, weather, call.now)
     /\ res' = WeatherAnswer(call.key, formatWeatherAlert(weather))
     /\ calls' = Returned(k)
     /\ UNCHANGED <<store, nextId, history, groq, now, req, llm, requests>>

\* checkWeatherAtLocation calls of one run
MaxChecks == 3

\* the times at which something happens to the weather service: within 30 seconds of
\* the start, after them, and 10 minutes later
WeatherClocks == {StartTime + d : d \in {0, 20000, 40000, 600000, 620000}}

NextWeather ==
  \/ \E p \in WeatherPositions :
       requests < MaxChecks /\ Len(calls) < MaxPending /\ CheckWeatherAtLocation(p)
  \/ \E k \in 1..Len(calls), out \in {"ok", "failed", "error"}, weather \in WeatherData :
       WeatherReturns(k, out, weather)
  \/ \E t \in WeatherClocks : t > now /\ Tick(t - now)

SpecWeather == InitNav /\ [][NextWeather]_vars

\* the time of the last request sent to the weather API
LastWeatherRequest == nav.weatherLookups[Len(nav.weatherLookups)].at

\* C39: a call for a location whose rounded key has a cache entry younger than 10
\* minutes sends no weather request and answers from the cache; otherwise a call made
\* less than 30 seconds after the previous weather request returns null without sending
\* one; so any two weather requests are at least 30 seconds apart, also when calls
\* overlap or an earlier request failed
C39_WeatherChecks ==
  /\ [][\A p \in WeatherPositions :
          (requests' = requests + 1 /\ res'.key = WeatherKey(p)) =>
             IF FreshWeather(nav, WeatherKey(p), now) # {}
             THEN /\ nav'.weatherLookups = nav.weatherLookups
                  /\ \E e \in FreshWeather(nav, WeatherKey(p), now) :
                       res'.value = formatWeatherAlert(e.weather)
             ELSE (nav.weatherLookups # <<>> /\ now - LastWeatherRequest < 30000) =>
                    (nav'.weatherLookups = nav.weatherLookups /\ res'.value = null)]_vars
  /\ [](\A i, j \in 1..Len(nav.weatherLookups) :
          i < j => nav.weatherLookups[j].at - nav.weatherLookups[i].at >= 30000)

=============================================================================
